---------------------------- MODULE Spec2Model ----------------------------
(***************************************************************************)
(* Model of the resilient API-access layer and the tool dispatch of the    *)
(* Belle voice assistant (voice-assistant/src/belle).                      *)
(*                                                                         *)
(*   SpecCB    : CircuitBreaker and the with_retry wrapper (belle/http.py) *)
(*   SpecTools : RequestDeduplicator and execute_tool_calls                *)
(*               (belle/http.py, belle/llm/common.py)                      *)
(*   SpecTurn  : a user turn, chat_async of the three providers, with the  *)
(*               context cache (belle/llm, belle/context.py)               *)
(*   SpecConv  : ConversationSession and ConversationManager               *)
(*               (belle/conversation.py)                                   *)
(*   SpecCache, SpecSmartCache : Cache and SmartCache (belle/http.py)      *)
(*   SpecDevices : the snapshot caches of the tool modules (belle/tools)   *)
(*   SpecResolver : normalize_name, find_by_name and                       *)
(*               get_close_matches_for_name (belle/http.py)                *)
(*   SpecControl : the five control tools (belle/tools)                    *)
(*   SpecContext : get_smart_home_context_json and its three fetches       *)
(*               (belle/context.py)                                        *)
(*   SpecFollowup : the follow-up request of the Anthropic provider        *)
(*               (belle/llm/anthropic.py)                                  *)
(*   SpecCoTools : execute_tool_calls of turns that run concurrently over  *)
(*               the one RequestDeduplicator (belle/llm/common.py)         *)
(*   SpecClassify : the shade classification of the context builder and    *)
(*               of the tools (belle/context.py, belle/tools)              *)
(*   SpecCoContext : the context of turns that run concurrently            *)
(*               (belle/context.py, belle/llm/common.py)                   *)
(*   SpecShades : the state update of control_shade and the one of         *)
(*               control_room_shades (belle/tools)                         *)
(*                                                                         *)
(* Concurrency is asyncio: a coroutine runs atomically between two awaits, *)
(* so every action below is the code between two suspension points.        *)
(***************************************************************************)
EXTENDS Integers, Sequences, FiniteSets, TLC

(***************************************************************************)
(* Bounds of the model.                                                    *)
(***************************************************************************)
\* the clock of the breaker runs from RecoveryTimeout up to MaxTime (seconds)
MaxTime == 90
\* granularity of the clock of the breaker (seconds)
ClockStep == 15
\* record_failure is not called any more once failure_count reached this
MaxFailures == 8
\* the count of admitted half-open calls saturates here
MaxTrials == 2
\* the clock of the deduplicator runs from 0 up to MaxTimeMs (milliseconds)
MaxTimeMs == 750
\* granularity of the clock of the deduplicator (milliseconds)
ClockStepMs == 250
\* the longest batch of tool calls of one turn
MaxBatch == 2
\* the clock of the conversation manager runs from 0 up to MaxConvTime (seconds)
MaxConvTime == 450
\* granularity of the clock of the conversation manager (seconds)
ConvClockStep == 150
\* max_history of the manager is one of 0..MaxHist
MaxHist == 3
\* the exchanges added in one behaviour
MaxExchanges == 3
\* the clock of the caches runs from CacheClockStep up to MaxCacheTime (seconds)
MaxCacheTime == 70
\* granularity of the clock of the caches (seconds)
CacheClockStep == 5
\* the clock of the tool modules runs from DevClockStep up to MaxDevTime (seconds)
MaxDevTime == 90
\* granularity of the clock of the tool modules (seconds)
DevClockStep == 30
\* the control calls that succeed in one behaviour
MaxControls == 2

(***************************************************************************)
(* Program constants.                                                      *)
(***************************************************************************)
FailureThreshold == 5
RecoveryTimeout == 30
HalfOpenMaxCalls == 1
DEFAULT_MAX_RETRIES == 3
RETRYABLE_STATUS_CODES == {500, 502, 503, 504, 429}
\* _tool_deduplicator = RequestDeduplicator(window_ms=500.0)
WindowMs == 500
\* _context_cache = Cache(ttl=15.0), _context_json_cache = Cache(ttl=15.0)
ContextTtl == 15
\* SmartCache(base_ttl=30.0, short_ttl=5.0, activity_window=60.0)
base_ttl == 30
short_ttl == 5
activity_window == 60
\* DEFAULT_MAX_HISTORY = 10
DEFAULT_MAX_HISTORY == 10
\* DEFAULT_SESSION_TTL = 300.0
DEFAULT_SESSION_TTL == 300
\* ALL_TOOL_FUNCTIONS: the names of the registered tools
ALL_TOOL_FUNCTIONS ==
    {"get_all_devices", "get_device_status", "control_device", "control_shade",
     "get_device_help", "get_all_rooms", "control_room", "control_room_shades",
     "get_all_groups", "control_group"}

\* class CircuitState
CLOSED == "closed"
OPEN == "open"
HALF_OPEN == "half_open"

\* the concurrent callers (asyncio tasks) of a with_retry-wrapped operation
Procs == {"p1", "p2"}

\* exceptions: what the wrapped operation raises in the model, and the
\* CircuitBreakerOpen of the wrapper
NoError == [type |-> "None", status |-> 0]
HTTPStatusError(code) == [type |-> "HTTPStatusError", status |-> code]
ConnectError == [type |-> "ConnectError", status |-> 0]
TimeoutException == [type |-> "TimeoutException", status |-> 0]
ValueError == [type |-> "ValueError", status |-> 0]
CircuitBreakerOpen == [type |-> "CircuitBreakerOpen", status |-> 0]
Errors == {HTTPStatusError(400), HTTPStatusError(429), HTTPStatusError(503),
           ConnectError, TimeoutException, ValueError}

NoOp == [op |-> "none", by |-> "none", before |-> "none"]

VARIABLES
    now,          \* time.time(), seconds
    cb,           \* _api_circuit_breaker: the fields of the CircuitBreaker
    pc,           \* per caller: where its wrapper() coroutine stands
    attempt,      \* per caller: the loop variable of wrapper()
    last_error,   \* per caller: last_error of wrapper()
    exc,          \* per caller: the exception wrapper() raised to the caller
    call_count,   \* per caller: invocations of func by the current call (ghost)
    reported,     \* per caller: record_failure calls of the current call (ghost)
    sleeps,       \* per caller: backoff sleeps of the current call (ghost)
    errs,         \* per caller: exceptions func raised in the current call (ghost)
    consec,       \* failures recorded since the last success or reset (ghost)
    trials,       \* calls admitted in the current half-open phase (ghost)
    last_op       \* the record_* call the last step made, if any (ghost)

cbvars == <<now, cb, pc, attempt, last_error, exc, call_count, reported, sleeps,
            errs, consec, trials, last_op>>

VARIABLES
    now_ms,             \* time.time() * 1000
    recent,             \* _tool_deduplicator._recent
    context_cache,      \* _context_cache: _data and _timestamp
    context_json_cache, \* _context_json_cache: _data and _timestamp
    tc_pc,              \* where execute_tool_calls stands
    tool_calls,         \* its argument
    tool_results,       \* its local list
    returned,           \* what it returned or raised to its caller
    invoked,            \* positions whose tool function was invoked (ghost)
    outcomes,           \* what the tool function of each position did (ghost)
    checks,             \* the is_duplicate calls of the batch (ghost)
    recorded,           \* per key: when is_duplicate last answered False (ghost)
    executed_at         \* per (name, arguments): when it was last not skipped (ghost)

toolvars == <<now_ms, recent, context_cache, context_json_cache, tc_pc, tool_calls,
              tool_results, returned, invoked, outcomes, checks, recorded,
              executed_at>>

VARIABLES
    provider,             \* settings.llm_provider
    turn_pc,              \* where chat_async stands
    emitted,              \* the tool-call items of the first model response
    turn_calls,           \* tool_calls of chat_async
    turn_results,         \* tool_results of chat_async
    generate_count,       \* generate calls issued in the turn (ghost)
    followup_instruction, \* what get_followup_instruction returned
    followup_ids,         \* the ids the tool-result messages of the follow-up
                          \* request carry, in order
    response,             \* what chat_async returned
    trace,                \* the phases the turn went through (ghost)
    context_source,       \* where the context of the turn came from (ghost)
    batch_since_fetch,    \* a batch returned since the last context fetch (ghost)
    prev_ok               \* identities whose last execution succeeded (ghost)

turnvars == <<provider, turn_pc, emitted, turn_calls, turn_results, generate_count,
              followup_instruction, followup_ids, response, trace, context_source,
              batch_since_fetch, prev_ok>>

VARIABLES
    conv_now,      \* time.time(), seconds, of the conversation manager
    max_history,   \* ConversationManager.max_history
    sessions,      \* ConversationManager._sessions: messages and last_activity
    next_content,  \* the content of the next exchange (ghost)
    appended,      \* per id: the messages appended since the session was fresh (ghost)
    last_touch,    \* per id: when a session was last created, added to or cleared (ghost)
    last_history,  \* the get_history call of the last step, if any (ghost)
    conv_op        \* the call on the manager the last step made, if any (ghost)

convvars == <<conv_now, max_history, sessions, next_content, appended, last_touch,
              last_history, conv_op>>

VARIABLES
    cache_now,   \* time.time(), seconds, of the two caches below
    fixed_cache, \* a Cache(ttl=15.0): _data and _timestamp
    fixed_set,   \* the last set() not followed by clear(): value and time (ghost)
    fixed_got    \* the get() of the last step, if any, and its answer (ghost)

cachevars == <<cache_now, fixed_cache, fixed_set, fixed_got>>

VARIABLES
    smart_cache,    \* a SmartCache(30, 5, 60): _data, _timestamp, _last_modification
    smart_set,      \* the last set() not followed by a clear or invalidate (ghost)
    smart_clear_at, \* when clear() was last called, -1 if never (ghost)
    smart_got,      \* the get() of the last step, if any, and its answer (ghost)
    smart_expired   \* a get() found the value stored by the last set()
                    \* expired (ghost)

smartvars == <<smart_cache, smart_set, smart_clear_at, smart_got, smart_expired>>

VARIABLES
    dev_now,        \* time.time(), seconds, of the tool modules
    upstream,       \* how many control calls have changed the state upstream
    snapshot_cache, \* _device_cache, _room_cache and _group_cache
    dev_read        \* the cached read of the last step, if any (ghost)

devvars == <<dev_now, upstream, snapshot_cache, dev_read>>

VARIABLES
    res_items,   \* the list handed to find_by_name: dicts with id and name
    res_query,   \* the name searched for in the last step, if any
    res_found,   \* what find_by_name returned: an index of res_items, 0 for None
    res_suggest  \* what get_close_matches_for_name returned: a list of names

resvars == <<res_items, res_query, res_found, res_suggest>>

VARIABLES
    ctl_count,   \* how many control tools have been called
    ctl_call,    \* the control tool called in the last step and its arguments
    ctl_result,  \* the dict that call returned
    ctl_puts,    \* the PUT requests that call sent: device id and state update
    ctl_before   \* the caches of the tool modules when that call began, and
                 \* the time (ghost)

ctlvars == <<ctl_count, ctl_call, ctl_result, ctl_puts, ctl_before>>

VARIABLES
    ctx_pc,      \* where get_smart_home_context_json stands
    ctx_fetch,   \* per resource: where its fetch coroutine stands
    ctx_got,     \* per resource: what its fetch coroutine returned
    ctx_context  \* the context the last call returned

ctxvars == <<ctx_pc, ctx_fetch, ctx_got, ctx_context>>

VARIABLES
    anth_messages  \* the messages of the last follow-up request of the
                   \* Anthropic provider, none before the first

anthvars == <<anth_messages>>

VARIABLES
    co_pc,       \* per concurrent turn: where its execute_tool_calls stands
    co_calls,    \* per concurrent turn: the tool_calls it was handed
    co_results,  \* per concurrent turn: its tool_results
    co_invoked,  \* per concurrent turn: positions whose tool function was
                 \* invoked (ghost)
    co_log       \* the is_duplicate calls of all the turns, in order (ghost)

covars == <<co_pc, co_calls, co_results, co_invoked, co_log>>

VARIABLES
    cls_device,   \* a device dict as upstream lists it
    cls_context,  \* the list of the context the device was put in, if any yet
    cls_tools     \* what _is_shade_device said of the device, if asked yet

clsvars == <<cls_device, cls_context, cls_tools>>

VARIABLES
    cc_pc,       \* per concurrent turn: where its chat_async stands
    cc_got,      \* per concurrent turn: what its fetch of the devices returned
    cc_context,  \* per concurrent turn: the context its prompt was built from
    cc_need,     \* per concurrent turn: how many control calls had succeeded
                 \* in completed batches when it asked for its context (ghost)
    cc_floor     \* the control calls that succeeded in completed batches (ghost)

ccvars == <<cc_pc, cc_got, cc_context, cc_need, cc_floor>>

VARIABLES
    sh_device,   \* the shade a request is about
    sh_request,  \* what is asked of it: an action, and a position or None
    sh_single,   \* the state update control_shade built for it, if any yet
    sh_room      \* the state update control_room_shades built for it, if any

shvars == <<sh_device, sh_request, sh_single, sh_room>>

\* the concurrent turns, the classification of a device and the state
\* updates of a shade
latevars == <<covars, clsvars, ccvars, shvars>>

\* the resolver, the control tools, the context builder, the follow-up
\* request of the Anthropic provider and the concurrent turns
morevars == <<resvars, ctlvars, ctxvars, anthvars, latevars>>

\* the components besides the breaker, the tool loop and the turn
rest == <<convvars, cachevars, smartvars, devvars, morevars>>

\* what the steps of the conversation manager leave alone
notconv == <<cbvars, toolvars, turnvars, cachevars, smartvars, devvars, morevars>>
\* what the steps of the caches leave alone, besides the caches
notcache == <<cbvars, toolvars, turnvars, convvars, devvars, morevars>>
\* what the steps of the tool modules leave alone
notdev == <<cbvars, toolvars, turnvars, convvars, cachevars, smartvars, morevars>>

\* what the steps of the resolver leave alone
notres == <<cbvars, toolvars, turnvars, convvars, cachevars, smartvars, devvars,
            ctlvars, ctxvars, anthvars, latevars>>
\* what the steps of the control tools leave alone, besides the snapshots
notctl == <<cbvars, toolvars, turnvars, convvars, cachevars, smartvars, resvars,
            ctxvars, anthvars, latevars>>
\* what the steps of the context builder leave alone, besides the two
\* context caches
notctx == <<cbvars, turnvars, convvars, cachevars, smartvars, devvars, resvars,
            ctlvars, anthvars, latevars>>
\* what the follow-up request of the Anthropic provider leaves alone
notanth == <<cbvars, toolvars, turnvars, convvars, cachevars, smartvars, devvars,
             resvars, ctlvars, ctxvars, latevars>>
\* what the steps of the concurrent turns leave alone, besides the
\* deduplicator, the clock and the context caches
notco == <<cbvars, turnvars, convvars, cachevars, smartvars, devvars, resvars,
           ctlvars, ctxvars, anthvars, clsvars, ccvars, shvars>>
\* what the classification of a device leaves alone
notcls == <<cbvars, toolvars, turnvars, convvars, cachevars, smartvars, devvars,
            resvars, ctlvars, ctxvars, anthvars, covars, ccvars, shvars>>
\* what the state updates of a shade leave alone
notsh == <<cbvars, toolvars, turnvars, convvars, cachevars, smartvars, devvars,
           resvars, ctlvars, ctxvars, anthvars, covars, clsvars, ccvars>>
\* what the contexts of the concurrent turns leave alone, besides the
\* context caches, the clock and the state upstream
notcc == <<cbvars, turnvars, convvars, cachevars, smartvars, resvars, ctlvars,
           ctxvars, anthvars, covars, clsvars, shvars>>

\* what the steps of the breaker, and of the tool loop, leave alone
notcb == <<toolvars, turnvars, rest>>
nottools == <<cbvars, turnvars, rest>>

vars == <<cbvars, toolvars, turnvars, rest>>

(***************************************************************************)
(* CircuitBreaker                                                          *)
(***************************************************************************)
\* CircuitBreaker.__init__ with the arguments of _api_circuit_breaker
CircuitBreakerInit ==
    [state |-> CLOSED, failure_count |-> 0, last_failure_time |-> 0,
     half_open_calls |-> 0]

\* the state property: the breaker after the read (the read may move it to
\* half-open); the value the property returns is its state field
StateProperty(b, t) ==
    IF b.state = OPEN /\ t - b.last_failure_time >= RecoveryTimeout
    THEN [b EXCEPT !.state = HALF_OPEN, !.half_open_calls = 0]
    ELSE b

\* is_available(), evaluated on the breaker as left by the state property
IsAvailable(b) ==
    IF b.state = CLOSED THEN TRUE
    ELSE IF b.state = HALF_OPEN THEN b.half_open_calls < HalfOpenMaxCalls
    ELSE FALSE

\* mutant: a success closes the breaker but keeps the failure count
RecordSuccessKeepsCount(b) ==
    [b EXCEPT !.state = CLOSED, !.half_open_calls = 0]

RecordSuccess(b) ==
    [b EXCEPT !.state = CLOSED, !.failure_count = 0, !.half_open_calls = 0]

\* mutant: the breaker opens one failure late (> instead of >=)
RecordFailureOpensLate(b, t) ==
    LET n == b.failure_count + 1 IN
    [b EXCEPT !.failure_count = n,
              !.last_failure_time = t,
              !.state = IF b.state = HALF_OPEN THEN OPEN
                        ELSE IF n > FailureThreshold THEN OPEN
                        ELSE b.state]

\* mutant: a failed trial call re-opens without restarting the recovery timer
RecordFailureKeepsTimer(b, t) ==
    LET n == b.failure_count + 1 IN
    [b EXCEPT !.failure_count = n,
              !.last_failure_time = IF b.state = HALF_OPEN THEN @ ELSE t,
              !.state = IF b.state = HALF_OPEN THEN OPEN
                        ELSE IF n >= FailureThreshold THEN OPEN
                        ELSE b.state]

RecordFailure(b, t) ==
    LET n == b.failure_count + 1 IN
    [b EXCEPT !.failure_count = n,
              !.last_failure_time = t,
              !.state = IF b.state = HALF_OPEN THEN OPEN
                        ELSE IF n >= FailureThreshold THEN OPEN
                        ELSE b.state]

ResetBreaker(b) ==
    [state |-> CLOSED, failure_count |-> 0, last_failure_time |-> 0,
     half_open_calls |-> 0]

(***************************************************************************)
(* with_retry                                                              *)
(***************************************************************************)
\* mutant: every HTTP status error is retried
IsRetryableErrorAnyStatus(e) ==
    IF e.type = "HTTPStatusError" THEN TRUE
    ELSE IF e.type \in {"ConnectError", "TimeoutException", "ReadError"} THEN TRUE
    ELSE FALSE

IsRetryableError(e) ==
    IF e.type = "HTTPStatusError" THEN e.status \in RETRYABLE_STATUS_CODES
    ELSE IF e.type \in {"ConnectError", "TimeoutException", "ReadError"} THEN TRUE
    ELSE FALSE

\* mutant: the loop gives up one attempt early
RetriesLeftOneLess(a) == a < DEFAULT_MAX_RETRIES - 1

\* "if attempt < max_retries": another iteration of range(max_retries + 1) follows
RetriesLeft(a) == a < DEFAULT_MAX_RETRIES

\* the number of admitted calls of the half-open phase the breaker is in
\* after a step (ghost)
TrialsAfter(b0, b1, admitted) ==
    IF b1.state # HALF_OPEN THEN 0
    ELSE LET n == (IF b0.state = HALF_OPEN THEN trials ELSE 0)
                   + (IF admitted THEN 1 ELSE 0)
         IN IF n > MaxTrials THEN MaxTrials ELSE n

\* wrapper(): the circuit breaker check and, when it passes, the first
\* invocation of func, up to func's first suspension
WrapperEnter(p) ==
    /\ pc[p] = "idle"
    /\ LET b == StateProperty(cb, now)
           ok == IsAvailable(b)
       IN /\ cb' = b
          /\ trials' = TrialsAfter(cb, b, ok)
          /\ IF ok
             THEN /\ pc' = [pc EXCEPT ![p] = "calling"]
                  /\ call_count' = [call_count EXCEPT ![p] = 1]
                  /\ UNCHANGED exc
             ELSE /\ pc' = [pc EXCEPT ![p] = "raised"]
                  /\ exc' = [exc EXCEPT ![p] = CircuitBreakerOpen]
                  /\ UNCHANGED call_count
    /\ last_op' = NoOp
    /\ UNCHANGED <<now, attempt, last_error, reported, sleeps, errs, consec>>
    /\ UNCHANGED notcb

\* func returns: record_success and return result
FuncReturns(p) ==
    /\ pc[p] = "calling"
    /\ cb' = RecordSuccess(cb)
    /\ consec' = 0
    /\ trials' = 0
    /\ last_op' = [op |-> "record_success", by |-> p, before |-> cb.state]
    /\ pc' = [pc EXCEPT ![p] = "returned"]
    /\ UNCHANGED <<now, attempt, last_error, exc, call_count, reported, sleeps, errs>>
    /\ UNCHANGED notcb

\* func raises e: the except block of the loop, up to the sleep or the raise
FuncRaises(p, e) ==
    /\ pc[p] = "calling"
    /\ last_error' = [last_error EXCEPT ![p] = e]
    /\ errs' = [errs EXCEPT ![p] = @ + 1]
    /\ IF IsRetryableError(e)
       THEN /\ cb.failure_count < MaxFailures
            /\ cb' = RecordFailure(cb, now)
            /\ consec' = consec + 1
            /\ trials' = TrialsAfter(cb, cb', FALSE)
            /\ last_op' = [op |-> "record_failure", by |-> p, before |-> cb.state]
            /\ reported' = [reported EXCEPT ![p] = @ + 1]
       ELSE /\ last_op' = NoOp
            /\ UNCHANGED <<cb, consec, trials, reported>>
    /\ IF ~IsRetryableError(e)
       THEN \* raise
            /\ pc' = [pc EXCEPT ![p] = "raised"]
            /\ exc' = [exc EXCEPT ![p] = e]
       ELSE IF RetriesLeft(attempt[p])
       THEN \* await asyncio.sleep(delay)
            /\ pc' = [pc EXCEPT ![p] = "sleeping"]
            /\ UNCHANGED exc
       ELSE \* the loop is over: raise last_error
            /\ pc' = [pc EXCEPT ![p] = "raised"]
            /\ exc' = [exc EXCEPT ![p] = last_error'[p]]
    /\ UNCHANGED <<now, attempt, call_count, sleeps>>
    /\ UNCHANGED notcb

\* asyncio.sleep(delay) is over: the next iteration of the loop invokes func
SleepDone(p) ==
    /\ pc[p] = "sleeping"
    /\ attempt' = [attempt EXCEPT ![p] = @ + 1]
    /\ sleeps' = [sleeps EXCEPT ![p] = @ + 1]
    /\ call_count' = [call_count EXCEPT ![p] = @ + 1]
    /\ pc' = [pc EXCEPT ![p] = "calling"]
    /\ last_op' = NoOp
    /\ UNCHANGED <<now, cb, last_error, exc, reported, errs, consec, trials>>
    /\ UNCHANGED notcb

\* the caller has seen the outcome; a later call starts a new wrapper()
CallerContinues(p) ==
    /\ pc[p] \in {"returned", "raised"}
    /\ pc' = [pc EXCEPT ![p] = "idle"]
    /\ attempt' = [attempt EXCEPT ![p] = 0]
    /\ last_error' = [last_error EXCEPT ![p] = NoError]
    /\ exc' = [exc EXCEPT ![p] = NoError]
    /\ call_count' = [call_count EXCEPT ![p] = 0]
    /\ reported' = [reported EXCEPT ![p] = 0]
    /\ sleeps' = [sleeps EXCEPT ![p] = 0]
    /\ errs' = [errs EXCEPT ![p] = 0]
    /\ last_op' = NoOp
    /\ UNCHANGED <<now, cb, consec, trials>>
    /\ UNCHANGED notcb

\* CircuitBreaker.reset()
Reset ==
    /\ cb' = ResetBreaker(cb)
    /\ consec' = 0
    /\ trials' = 0
    /\ last_op' = NoOp
    /\ UNCHANGED <<now, pc, attempt, last_error, exc, call_count, reported, sleeps, errs>>
    /\ UNCHANGED notcb

\* time passes
Tick ==
    /\ now + ClockStep <= MaxTime
    /\ now' = now + ClockStep
    /\ last_op' = NoOp
    /\ UNCHANGED <<cb, pc, attempt, last_error, exc, call_count, reported, sleeps,
                   errs, consec, trials>>
    /\ UNCHANGED notcb

\* the breaker as constructed, no call running
BreakerStart ==
    /\ now = RecoveryTimeout
    /\ cb = CircuitBreakerInit
    /\ pc = [p \in Procs |-> "idle"]
    /\ attempt = [p \in Procs |-> 0]
    /\ last_error = [p \in Procs |-> NoError]
    /\ exc = [p \in Procs |-> NoError]
    /\ call_count = [p \in Procs |-> 0]
    /\ reported = [p \in Procs |-> 0]
    /\ sleeps = [p \in Procs |-> 0]
    /\ errs = [p \in Procs |-> 0]
    /\ consec = 0
    /\ trials = 0
    /\ last_op = NoOp

NextCB ==
    \/ \E p \in Procs : WrapperEnter(p)
    \/ \E p \in Procs : FuncReturns(p)
    \/ \E p \in Procs, e \in Errors : FuncRaises(p, e)
    \/ \E p \in Procs : SleepDone(p)
    \/ \E p \in Procs : CallerContinues(p)
    \/ Reset
    \/ Tick

(***************************************************************************)
(* RequestDeduplicator                                                     *)
(***************************************************************************)
\* the tool calls a model may emit in the model; arguments is the dict in
\* insertion order, a sequence of <<key, value>>
KitchenOn ==
    [name |-> "control_device",
     arguments |-> << <<"device_name", "Kitchen">>, <<"on", "true">> >>]
KitchenOnSwapped ==
    [name |-> "control_device",
     arguments |-> << <<"on", "true">>, <<"device_name", "Kitchen">> >>]
KitchenOff ==
    [name |-> "control_device",
     arguments |-> << <<"device_name", "Kitchen">>, <<"on", "false">> >>]
MakeCoffee == [name |-> "make_coffee", arguments |-> << >>]
Calls == {KitchenOn, KitchenOnSwapped, KitchenOff, MakeCoffee}

\* the argument names of the model, in the order sort_keys puts them
SortedArgNames == <<"device_name", "on">>

\* json.dumps(..., sort_keys=True) of a dict: its items in the order of their keys
SortKeys(kwargs) ==
    LET keys == {kwargs[i][1] : i \in 1..Len(kwargs)}
        In(k) == k \in keys
        order == SelectSeq(SortedArgNames, In)
        Value(k) == kwargs[CHOOSE i \in 1..Len(kwargs) : kwargs[i][1] = k][2]
    IN [i \in 1..Len(order) |-> <<order[i], Value(order[i])>>]

\* mutant: the key is built from the arguments in insertion order
MakeKeyUnsorted(name, kwargs) == <<name, kwargs>>

\* make_key(name, **arguments): the md5 of the JSON text of the positional
\* and the keyword arguments; the hash is taken to be free of collisions, so
\* the key is the content that is hashed
MakeKey(name, kwargs) == <<name, SortKeys(kwargs)>>

\* _cleanup_expired at time t
CleanupExpired(r, t) ==
    LET expired == {k \in DOMAIN r : (t - r[k]) > WindowMs}
    IN [k \in (DOMAIN r) \ expired |-> r[k]]

\* mutant: a duplicate refreshes the time of its key (a sliding window)
IsDuplicateRefreshes(r, key, t) ==
    LET r1 == CleanupExpired(r, t)
        put == [k \in (DOMAIN r1) \cup {key} |-> IF k = key THEN t ELSE r1[k]]
    IN IF key \in DOMAIN r1 /\ (t - r1[key]) < WindowMs
       THEN [recent |-> put, dup |-> TRUE]
       ELSE [recent |-> put, dup |-> FALSE]

\* mutant: the check does not record the key (the recording is left to a
\* later step of the caller)
IsDuplicateChecksOnly(r, key, t) ==
    LET r1 == CleanupExpired(r, t)
    IN [recent |-> r1, dup |-> key \in DOMAIN r1 /\ (t - r1[key]) < WindowMs]

\* is_duplicate(key) at time t on _recent = r: _recent after the call and
\* the value returned
IsDuplicate(r, key, t) ==
    LET r1 == CleanupExpired(r, t)
    IN IF key \in DOMAIN r1 /\ (t - r1[key]) < WindowMs
       THEN [recent |-> r1, dup |-> TRUE]
       ELSE [recent |-> [k \in (DOMAIN r1) \cup {key} |->
                            IF k = key THEN t ELSE r1[k]],
             dup |-> FALSE]

(***************************************************************************)
(* Cache (the two context caches)                                          *)
(***************************************************************************)
EmptyCache == [data |-> "None", timestamp |-> 0]
FilledCache == [data |-> "context", timestamp |-> 0]

\* mutant: the entry expires as soon as its age reaches the ttl
CacheGetExpiresAtTtl(c, t, ttl) ==
    IF c.data = "None" THEN "None"
    ELSE IF (t - c.timestamp) >= ttl THEN "None"
    ELSE c.data

\* Cache.get() at time t of a cache constructed with ttl
CacheGet(c, t, ttl) ==
    IF c.data = "None" THEN "None"
    ELSE IF (t - c.timestamp) > ttl THEN "None"
    ELSE c.data

\* Cache.set(data) at time t
CacheSet(data, t) == [data |-> data, timestamp |-> t]

\* mutant: clear() leaves the data in place
CacheClearKeepsData(c) == c

\* Cache.clear()
CacheClear(c) == [data |-> "None", timestamp |-> 0]

(***************************************************************************)
(* SmartCache                                                              *)
(***************************************************************************)
\* SmartCache.__init__
SmartCacheInit == [data |-> "None", timestamp |-> 0, last_modification |-> 0]

\* mutant: the short TTL still applies when exactly activity_window has passed
EffectiveTtlWindowInclusive(c, t) ==
    IF c.last_modification > 0 /\ t - c.last_modification <= activity_window
    THEN short_ttl ELSE base_ttl

\* SmartCache._get_effective_ttl() at time t
EffectiveTtl(c, t) ==
    IF c.last_modification > 0 /\ t - c.last_modification < activity_window
    THEN short_ttl ELSE base_ttl

\* SmartCache.get() at time t
SmartGet(c, t) ==
    IF c.data = "None" THEN "None"
    ELSE IF (t - c.timestamp) > EffectiveTtl(c, t) THEN "None"
    ELSE c.data

\* SmartCache.set(data) at time t
SmartSet(c, data, t) == [c EXCEPT !.data = data, !.timestamp = t]

\* SmartCache.clear() at time t
SmartClear(c, t) == [data |-> "None", timestamp |-> 0, last_modification |-> t]

\* SmartCache.invalidate_only()
SmartInvalidateOnly(c) == [c EXCEPT !.data = "None", !.timestamp = 0]

(***************************************************************************)
(* execute_tool and execute_tool_calls                                     *)
(***************************************************************************)
\* what the tool function does once invoked
ToolOutcomes == {"success", "failure", "TypeError", "Exception"}

NoResult == [raised |-> FALSE, success |-> FALSE, skipped |-> FALSE, error |-> ""]
\* result dicts: success, skipped and error are the keys the model keeps
SkippedResult == [success |-> TRUE, skipped |-> TRUE, error |-> ""]
SuccessResult == [success |-> TRUE, skipped |-> FALSE, error |-> ""]
FailureResult(msg) == [success |-> FALSE, skipped |-> FALSE, error |-> msg]

\* mutant: only TypeError is caught
ExecuteToolCatchesTypeError(name, outcome) ==
    IF name \notin ALL_TOOL_FUNCTIONS
    THEN [raised |-> FALSE, result |-> FailureResult("Unknown tool")]
    ELSE CASE outcome = "success" -> [raised |-> FALSE, result |-> SuccessResult]
           [] outcome = "failure" ->
                [raised |-> FALSE, result |-> FailureResult("tool error")]
           [] outcome = "TypeError" ->
                [raised |-> FALSE, result |-> FailureResult("Invalid arguments")]
           [] outcome = "Exception" ->
                [raised |-> TRUE, result |-> FailureResult("exception")]

\* execute_tool: what it gives back when the tool function ends with outcome
\* (an unknown name ends it before any function is invoked)
ExecuteTool(name, outcome) ==
    IF name \notin ALL_TOOL_FUNCTIONS
    THEN [raised |-> FALSE, result |-> FailureResult("Unknown tool")]
    ELSE CASE outcome = "success" -> [raised |-> FALSE, result |-> SuccessResult]
           [] outcome = "failure" ->
                [raised |-> FALSE, result |-> FailureResult("tool error")]
           [] outcome = "TypeError" ->
                [raised |-> FALSE, result |-> FailureResult("Invalid arguments")]
           [] outcome = "Exception" ->
                [raised |-> FALSE, result |-> FailureResult("exception")]

\* the entry of tool_results for a call
ResultEntry(call, result) ==
    [tool |-> call.name, arguments |-> call.arguments, result |-> result]

\* (name, arguments) of a call, the arguments as a mapping
CallIdentity(call) ==
    <<call.name, {call.arguments[i] : i \in 1..Len(call.arguments)}>>

Batches == UNION {[1..n -> Calls] : n \in 1..MaxBatch}

\* execute_tool_calls(tool_calls) is called: deduplicator and tool_results = []
StartBatch(calls) ==
    /\ tc_pc = "idle"
    /\ tc_pc' = "loop"
    /\ tool_calls' = calls
    /\ tool_results' = << >>
    /\ UNCHANGED <<now_ms, recent, context_cache, context_json_cache, returned,
                   invoked, outcomes, checks, recorded, executed_at>>
    /\ UNCHANGED nottools

\* one iteration of the loop, up to the continue or the await of execute_tool
LoopIteration ==
    /\ tc_pc = "loop"
    /\ Len(tool_results) < Len(tool_calls)
    /\ LET i == Len(tool_results) + 1
           tool_call == tool_calls[i]
           dedup_key == MakeKey(tool_call.name, tool_call.arguments)
           d == IsDuplicate(recent, dedup_key, now_ms)
           id == CallIdentity(tool_call)
       IN /\ recent' = d.recent
          /\ checks' = Append(checks,
                 [key |-> dedup_key, at |-> now_ms, answer |-> d.dup,
                  expected |-> /\ dedup_key \in DOMAIN recorded
                               /\ now_ms - recorded[dedup_key] < WindowMs,
                  stale |-> /\ dedup_key \in DOMAIN recorded
                            /\ now_ms - recorded[dedup_key] > WindowMs,
                  first |-> dedup_key \notin DOMAIN recorded,
                  seen |-> /\ id \in DOMAIN executed_at
                           /\ now_ms - executed_at[id] < WindowMs,
                  stored |-> IF dedup_key \in DOMAIN d.recent
                             THEN d.recent[dedup_key] ELSE -1,
                  before |-> recent, after |-> d.recent])
          /\ recorded' = IF d.dup THEN recorded
                         ELSE [k \in (DOMAIN recorded) \cup {dedup_key} |->
                                  IF k = dedup_key THEN now_ms ELSE recorded[k]]
          /\ executed_at' = IF d.dup THEN executed_at
                            ELSE [k \in (DOMAIN executed_at) \cup {id} |->
                                     IF k = id THEN now_ms ELSE executed_at[k]]
          /\ IF d.dup
             THEN \* the synthetic result; continue
                  /\ tool_results' = Append(tool_results,
                                            ResultEntry(tool_call, SkippedResult))
                  /\ outcomes' = Append(outcomes, "skipped")
                  /\ UNCHANGED <<tc_pc, invoked, returned>>
             ELSE IF tool_call.name \notin ALL_TOOL_FUNCTIONS
             THEN \* execute_tool returns at once: no function to invoke
                  /\ tool_results' = Append(tool_results,
                         ResultEntry(tool_call, ExecuteTool(tool_call.name, "none").result))
                  /\ outcomes' = Append(outcomes, "unknown")
                  /\ UNCHANGED <<tc_pc, invoked, returned>>
             ELSE \* await func(**arguments)
                  /\ tc_pc' = "awaiting"
                  /\ invoked' = Append(invoked, i)
                  /\ UNCHANGED <<tool_results, outcomes, returned>>
    /\ UNCHANGED <<now_ms, context_cache, context_json_cache, tool_calls>>
    /\ UNCHANGED nottools

\* the tool function ends: execute_tool returns (or raises) and the result
\* is appended
ToolCompletes(outcome) ==
    /\ tc_pc = "awaiting"
    /\ LET i == Len(tool_results) + 1
           tool_call == tool_calls[i]
           r == ExecuteTool(tool_call.name, outcome)
       IN /\ outcomes' = Append(outcomes, outcome)
          /\ IF r.raised
             THEN \* nothing in execute_tool_calls catches it
                  /\ tc_pc' = "raised"
                  /\ returned' = <<outcome>>
                  /\ UNCHANGED tool_results
             ELSE /\ tc_pc' = "loop"
                  /\ tool_results' = Append(tool_results,
                                            ResultEntry(tool_call, r.result))
                  /\ UNCHANGED returned
    /\ UNCHANGED <<now_ms, recent, context_cache, context_json_cache, tool_calls,
                   invoked, checks, recorded, executed_at>>
    /\ UNCHANGED nottools

\* the loop is over: clear_context_cache() and return tool_results
LoopEnd ==
    /\ tc_pc = "loop"
    /\ Len(tool_results) = Len(tool_calls)
    /\ context_cache' = CacheClear(context_cache)
    /\ context_json_cache' = CacheClear(context_json_cache)
    /\ returned' = tool_results
    /\ tc_pc' = "done"
    /\ UNCHANGED <<now_ms, recent, tool_calls, tool_results, invoked, outcomes,
                   checks, recorded, executed_at>>
    /\ UNCHANGED nottools

\* the caller has the results; the next turn may call execute_tool_calls again
TurnEnds ==
    /\ tc_pc \in {"done", "raised"}
    /\ tc_pc' = "idle"
    /\ tool_calls' = << >>
    /\ tool_results' = << >>
    /\ returned' = << >>
    /\ invoked' = << >>
    /\ outcomes' = << >>
    /\ checks' = << >>
    /\ UNCHANGED <<now_ms, recent, context_cache, context_json_cache, recorded,
                   executed_at>>
    /\ UNCHANGED nottools

\* time passes
TickMs ==
    /\ now_ms + ClockStepMs <= MaxTimeMs
    /\ now_ms' = now_ms + ClockStepMs
    /\ UNCHANGED <<recent, context_cache, context_json_cache, tc_pc, tool_calls,
                   tool_results, returned, invoked, outcomes, checks, recorded,
                   executed_at>>
    /\ UNCHANGED nottools

\* the deduplicator and the caches as constructed, no turn running
ToolsStart(c1, c2) ==
    /\ now_ms = 0
    /\ recent = << >>
    /\ context_cache = c1
    /\ context_json_cache = c2
    /\ tc_pc = "idle"
    /\ tool_calls = << >>
    /\ tool_results = << >>
    /\ returned = << >>
    /\ invoked = << >>
    /\ outcomes = << >>
    /\ checks = << >>
    /\ recorded = << >>
    /\ executed_at = << >>

\* the sessions of the model
SessionIds == {"s1", "s2"}

\* no get_history call was made by the last step
NoHistory == [id |-> "none", history |-> << >>, idle |-> FALSE, prior |-> 0]

\* ConversationManager(max_history=mh): no session yet
ConvStart(mh) ==
    /\ conv_now = 0
    /\ max_history = mh
    /\ sessions = << >>
    /\ next_content = 1
    /\ appended = [id \in SessionIds |-> << >>]
    /\ last_touch = [id \in SessionIds |-> -1]
    /\ last_history = NoHistory
    /\ conv_op = "none"

\* no set() so far; no get() in the last step
NoSet == [value |-> "None", at |-> -1]
NoGet == [called |-> FALSE, value |-> "None", ttl |-> 0]

\* a Cache and a SmartCache as constructed
CachesStart ==
    /\ cache_now = CacheClockStep
    /\ fixed_cache = EmptyCache
    /\ fixed_set = NoSet
    /\ fixed_got = NoGet
    /\ smart_cache = SmartCacheInit
    /\ smart_set = NoSet
    /\ smart_clear_at = -1
    /\ smart_got = NoGet
    /\ smart_expired = FALSE

\* the snapshots the tool modules cache
Snapshots == {"devices", "rooms", "groups"}
NoRead == [kind |-> "none", from_cache |-> FALSE, data |-> "None"]

\* _device_cache, _room_cache and _group_cache as constructed
DevStart ==
    /\ dev_now = DevClockStep
    /\ upstream = 0
    /\ snapshot_cache = [k \in Snapshots |-> SmartCacheInit]
    /\ dev_read = NoRead

\* no name has been searched for yet
NoQuery == [base |-> "none", spelling |-> "none"]

\* find_by_name has not been called; list is the list it will be handed
ResolverIdle(list) ==
    /\ res_items = list
    /\ res_query = NoQuery
    /\ res_found = 0
    /\ res_suggest = << >>

\* an argument that was not given, and one that was
None == << >>
Some(v) == <<v>>

\* no control tool has been called yet
NoCall ==
    [fn |-> "none", target |-> "none", on |-> None, brightness |-> None,
     color |-> None, color_temp |-> None, action |-> "none", position |-> None]
NoControlResult ==
    [success |-> FALSE, error |-> "", message |-> "", suggestions |-> << >>,
     results |-> None]
ControlIdle ==
    /\ ctl_count = 0
    /\ ctl_call = NoCall
    /\ ctl_result = NoControlResult
    /\ ctl_puts = << >>
    /\ ctl_before = [caches |-> [k \in Snapshots |-> SmartCacheInit], now |-> 0]

\* get_smart_home_context_json has not been called yet
ContextIdle ==
    /\ ctx_pc = "idle"
    /\ ctx_fetch = [k \in Snapshots |-> "idle"]
    /\ ctx_got = [k \in Snapshots |-> "None"]
    /\ ctx_context = "None"

\* the asyncio tasks that serve concurrent turns
Tasks == {"t1", "t2", "t3"}

\* no concurrent turn has reached its tool loop
TasksIdle ==
    /\ co_pc = [t \in Tasks |-> "idle"]
    /\ co_calls = [t \in Tasks |-> << >>]
    /\ co_results = [t \in Tasks |-> << >>]
    /\ co_invoked = [t \in Tasks |-> << >>]
    /\ co_log = << >>

\* no device has been classified: device is the one that will be
Unclassified(device) ==
    /\ cls_device = device
    /\ cls_context = "none"
    /\ cls_tools = "none"

\* no concurrent turn has asked for its context
ContextsIdle ==
    /\ cc_pc = [t \in Tasks |-> "idle"]
    /\ cc_got = [t \in Tasks |-> "None"]
    /\ cc_context = [t \in Tasks |-> "None"]
    /\ cc_need = [t \in Tasks |-> 0]
    /\ cc_floor = 0

\* no state update has been built for device under request
ShadeAsked(device, request) ==
    /\ sh_device = device
    /\ sh_request = request
    /\ sh_single = << >>
    /\ sh_room = << >>

\* the concurrent turns, the classification and the state updates of a
\* shade before their first step
LateStart ==
    /\ TasksIdle
    /\ Unclassified([name |-> << >>])
    /\ ContextsIdle
    /\ ShadeAsked([name |-> << >>], [action |-> "none", position |-> << >>])

\* the resolver, the control tools, the context builder, the Anthropic
\* provider and the later components before their first call
MoreStart ==
    /\ ResolverIdle(<< >>)
    /\ ControlIdle
    /\ ContextIdle
    /\ anth_messages = << >>
    /\ LateStart

\* the components besides the breaker, the tool loop and the turn, as
\* constructed
RestStart == ConvStart(DEFAULT_MAX_HISTORY) /\ CachesStart /\ DevStart /\ MoreStart

\* the settings name one of three providers
Providers == {"local", "openai", "anthropic"}

\* chat_async has not returned anything yet
NoResponse == [tool_calls |-> << >>, tool_results |-> << >>, actions |-> << >>]

\* no turn is running; prov is settings.llm_provider
TurnIdle(prov) ==
    /\ provider = prov
    /\ turn_pc = "idle"
    /\ emitted = << >>
    /\ turn_calls = << >>
    /\ turn_results = << >>
    /\ generate_count = 0
    /\ followup_instruction = "none"
    /\ followup_ids = << >>
    /\ response = NoResponse
    /\ trace = << >>
    /\ context_source = "none"
    /\ batch_since_fetch = FALSE
    /\ prev_ok = {}

\* the context caches are empty, or hold the context an earlier turn built
InitTools ==
    \E c1 \in {EmptyCache, FilledCache}, c2 \in {EmptyCache, FilledCache} :
        BreakerStart /\ ToolsStart(c1, c2) /\ TurnIdle("local") /\ RestStart

NextTools ==
    \/ \E calls \in Batches : StartBatch(calls)
    \/ LoopIteration
    \/ \E outcome \in ToolOutcomes : ToolCompletes(outcome)
    \/ LoopEnd
    \/ TurnEnds
    \/ TickMs

InitCB ==
    BreakerStart /\ ToolsStart(EmptyCache, EmptyCache) /\ TurnIdle("local") /\ RestStart

SpecCB == InitCB /\ [][NextCB]_vars

SpecTools == InitTools /\ [][NextTools]_vars

(***************************************************************************)
(* Properties of the circuit breaker and of with_retry.                    *)
(***************************************************************************)
\* the classification of errors, as the specification words it
RetryableStatus == {429, 500, 502, 503, 504}
RetryableKind(e) ==
    \/ e.type = "HTTPStatusError" /\ e.status \in RetryableStatus
    \/ e.type \in {"ConnectError", "TimeoutException", "ReadError"}
NonRetryableStatusError(e) ==
    e.type = "HTTPStatusError" /\ e.status \notin RetryableStatus

\* the breaker is Open and less than recoveryTimeout has elapsed since the
\* last recorded failure
OpenAndCooling == cb.state = OPEN /\ now - cb.last_failure_time < RecoveryTimeout

\* C1: while the breaker is Open and less than recoveryTimeout has elapsed
\* since the last failure, no step begins a real attempt of the wrapped
\* operation, neither a new call nor a further attempt of a running retry loop.
C1_NoAttemptWhileOpen ==
    [][OpenAndCooling => \A p \in Procs : call_count'[p] <= call_count[p]]_vars

\* C2: the breaker is Closed exactly while fewer than failureThreshold
\* failures were recorded since the last success or reset, failure_count is
\* that number, and so it is Open as soon as the number reaches the threshold.
C2_OpenIffThreshold ==
    /\ cb.failure_count = consec
    /\ (cb.state = CLOSED) <=> (consec < FailureThreshold)
    /\ (consec >= FailureThreshold /\ last_op.op = "record_failure") => cb.state = OPEN

C2_Witness ==
    /\ cb.state = OPEN
    /\ consec = FailureThreshold
    /\ last_op.op = "record_failure"
    /\ last_op.before = CLOSED

\* C3: in one half-open phase at most halfOpenMaxCalls calls are admitted.
C3_AtMostMaxTrials == trials <= HalfOpenMaxCalls

\* C4: a success recorded in HalfOpen closes the breaker with failure_count 0;
\* a failure recorded in HalfOpen re-opens it and sets last_failure_time to
\* the current time; the breaker is HalfOpen only when a full recoveryTimeout
\* has elapsed since the last recorded failure.
C4_HalfOpenOutcome ==
    /\ (last_op.op = "record_success" /\ last_op.before = HALF_OPEN)
          => (cb.state = CLOSED /\ cb.failure_count = 0)
    /\ (last_op.op = "record_failure" /\ last_op.before = HALF_OPEN)
          => (cb.state = OPEN /\ cb.last_failure_time = now)
    /\ cb.state = HALF_OPEN => now - cb.last_failure_time >= RecoveryTimeout

\* a trial call failed, the breaker re-opened, and after another
\* recoveryTimeout it is HalfOpen again
C4_Witness ==
    /\ cb.state = HALF_OPEN
    /\ consec = FailureThreshold + 1
    /\ now - cb.last_failure_time >= RecoveryTimeout
    /\ cb.last_failure_time >= 2 * RecoveryTimeout

\* C35: a breaker that is not Closed becomes Closed, a reset aside, only by
\* a success recorded while it is HalfOpen, a full recoveryTimeout after the
\* last recorded failure; this for calls and retry loops that were in flight
\* when it opened as well
C35_ClosedOnlyAfterTrial ==
    (last_op.op = "record_success" /\ last_op.before # CLOSED) =>
        /\ last_op.before = HALF_OPEN
        /\ now - cb.last_failure_time >= RecoveryTimeout

\* C5: a call that returned a result made exactly one attempt more than the
\* number of errors the operation raised (at most maxRetries), and right
\* after its return the failure count of the breaker is 0.
C5_RetryThenSuccess ==
    \A p \in Procs :
        pc[p] = "returned" =>
            /\ errs[p] <= DEFAULT_MAX_RETRIES
            /\ call_count[p] = errs[p] + 1
            /\ (last_op.op = "record_success" /\ last_op.by = p)
                  => cb.failure_count = 0

\* three retryable failures and then the success of the fourth attempt
C5_Witness ==
    \E p \in Procs :
        /\ pc[p] = "returned"
        /\ errs[p] = DEFAULT_MAX_RETRIES
        /\ call_count[p] = DEFAULT_MAX_RETRIES + 1
        /\ last_error[p] = HTTPStatusError(503)
        /\ last_op.op = "record_success" /\ last_op.by = p
        /\ cb.failure_count = 0

\* C6: no call makes more than maxRetries+1 attempts, and a call that raised
\* a retryable error to its caller made exactly maxRetries+1 attempts, all of
\* which failed, reported each failure once to the breaker, and raised the
\* error of the last attempt.
C6_ExhaustsRetries ==
    \A p \in Procs :
        /\ call_count[p] <= DEFAULT_MAX_RETRIES + 1
        /\ (pc[p] = "raised" /\ RetryableKind(exc[p])) =>
              /\ call_count[p] = DEFAULT_MAX_RETRIES + 1
              /\ errs[p] = DEFAULT_MAX_RETRIES + 1
              /\ reported[p] = DEFAULT_MAX_RETRIES + 1
              /\ exc[p] = last_error[p]

C6_Witness ==
    \E p \in Procs :
        /\ pc[p] = "raised"
        /\ exc[p] = TimeoutException
        /\ call_count[p] = DEFAULT_MAX_RETRIES + 1
        /\ reported[p] = DEFAULT_MAX_RETRIES + 1

\* C7: once the operation raised an HTTP status error other than
\* 429/500/502/503/504, the wrapper has raised that error to the caller: no
\* attempt and no backoff sleep follows it, so an operation that raises it at
\* the first attempt is attempted exactly once.
C7_NonRetryablePropagates ==
    \A p \in Procs :
        NonRetryableStatusError(last_error[p]) =>
            /\ pc[p] = "raised"
            /\ exc[p] = last_error[p]
            /\ call_count[p] = errs[p]
            /\ sleeps[p] = errs[p] - 1

C7_Witness ==
    \E p \in Procs :
        /\ pc[p] = "raised"
        /\ exc[p] = HTTPStatusError(400)
        /\ call_count[p] = 1
        /\ sleeps[p] = 0

(***************************************************************************)
(* Properties of the deduplicator and of execute_tool_calls.               *)
(***************************************************************************)
Range(f) == {f[i] : i \in DOMAIN f}

\* C8: is_duplicate(k) answers False when k was never recorded, True when k
\* was recorded less than windowMs ago, and False again, recording k anew at
\* the current time, when k was recorded more than windowMs ago; when k was
\* recorded depends on the checks of k alone, whatever other keys were
\* checked in between.
C8_DuplicateWithinWindow ==
    \A i \in 1..Len(checks) :
        LET c == checks[i] IN
        /\ c.first => ~c.answer
        /\ c.expected => c.answer
        /\ c.stale => ~c.answer
        /\ ~c.answer => c.stored = c.at

\* a key recorded by an earlier batch is a duplicate although another key was
\* checked (and recorded) in between
C8_Witness ==
    /\ Len(checks) = 2
    /\ checks[1].key # checks[2].key
    /\ checks[1].first /\ ~checks[1].answer
    /\ checks[2].expected /\ checks[2].answer
    /\ checks[2].at > recorded[checks[2].key]

\* C9: results are appended one per call in list order and returned as they
\* are; tool functions are invoked in list order; a call whose
\* (name, arguments) was executed less than windowMs ago gets the synthetic
\* skipped result and its tool function is not invoked.
C9_OrderedAndSkipped ==
    /\ Len(tool_results) <= Len(tool_calls)
    /\ \A i \in 1..Len(tool_results) :
          /\ tool_results[i].tool = tool_calls[i].name
          /\ tool_results[i].arguments = tool_calls[i].arguments
    /\ tc_pc = "done" => (returned = tool_results /\ Len(returned) = Len(tool_calls))
    /\ \A j \in 1..Len(invoked) :
          /\ invoked[j] <= Len(tool_results) + 1
          /\ j > 1 => invoked[j - 1] < invoked[j]
    /\ \A i \in 1..Len(checks) :
          checks[i].seen =>
              /\ i <= Len(tool_results)
              /\ tool_results[i].result = SkippedResult
              /\ i \notin Range(invoked)

\* the second call repeats the first with its arguments in another order: it
\* is skipped and only the first tool function was invoked
C9_Witness ==
    /\ tc_pc = "done"
    /\ Len(returned) = 2
    /\ tool_calls[1].arguments # tool_calls[2].arguments
    /\ returned[1].result = SuccessResult
    /\ returned[2].result = SkippedResult
    /\ invoked = <<1>>

\* C10: execute_tool_calls never raises; the result of a call whose tool
\* function raised is a failed result with an error, and the batch goes on:
\* what is returned holds one result per call.
C10_ExceptionsBecomeResults ==
    /\ tc_pc # "raised"
    /\ \A i \in 1..Len(outcomes) :
          outcomes[i] \in {"TypeError", "Exception"} =>
              /\ i <= Len(tool_results)
              /\ tool_results[i].result.success = FALSE
              /\ tool_results[i].result.error # ""
    /\ tc_pc = "done" => Len(returned) = Len(tool_calls)

\* the first tool function raised and the second call was executed all the same
C10_Witness ==
    /\ tc_pc = "done"
    /\ Len(returned) = 2
    /\ outcomes[1] = "Exception"
    /\ returned[1].result.success = FALSE
    /\ outcomes[2] = "success"
    /\ returned[2].result = SuccessResult

\* C31 as stated: a check that answers True leaves _recent exactly as it was
C31_DuplicateLeavesEntries ==
    \A i \in 1..Len(checks) :
        checks[i].answer => checks[i].after = checks[i].before

\* the entries of r that _cleanup_expired keeps at time t, told by their age
Unexpired(r, t) == {k \in DOMAIN r : ~(t - r[k] > WindowMs)}

\* C31, amended: a check that answers True does not refresh the time of its
\* key, adds no entry and changes the time of none; the entries it removes
\* are exactly those recorded more than windowMs ago
C31_DuplicateDropsExpiredOnly ==
    \A i \in 1..Len(checks) :
        LET c == checks[i] IN
        c.answer =>
            /\ c.key \in DOMAIN c.before
            /\ c.key \in DOMAIN c.after
            /\ c.after[c.key] = c.before[c.key]
            /\ DOMAIN c.after = Unexpired(c.before, c.at)
            /\ \A k \in DOMAIN c.after : c.after[k] = c.before[k]

\* a check answered True some time after its key was recorded, while an
\* expired entry of another key was dropped and a third one was kept
C31_Witness ==
    \E i \in 1..Len(checks) :
        LET c == checks[i] IN
        /\ c.answer
        /\ c.at > c.before[c.key]
        /\ DOMAIN c.after # DOMAIN c.before
        /\ Cardinality(DOMAIN c.after) >= 2

(***************************************************************************)
(* A user turn: chat_async of the three providers (belle/llm).             *)
(***************************************************************************)
\* one tool call as the model emits it: parses tells whether the item can be
\* read at all (local: the JSON object validates as a ToolCall; OpenAI: the
\* arguments string is JSON)
Item(call, parses) ==
    [name |-> call.name, arguments |-> call.arguments, parses |-> parses]

\* what a provider's model may emit; the Anthropic API hands over tool_use
\* blocks whose input is already a dict
ItemsOf(prov) ==
    IF prov = "anthropic"
    THEN {Item(KitchenOn, TRUE), Item(MakeCoffee, TRUE)}
    ELSE {Item(KitchenOn, TRUE), Item(MakeCoffee, TRUE), Item(KitchenOn, FALSE)}

\* the first responses of the model: up to MaxBatch tool-call items
Outputs(prov) == UNION {[1..n -> ItemsOf(prov)] : n \in 0..MaxBatch}

\* ToolCall(name=..., arguments=...)
ToolCall(item) == [name |-> item.name, arguments |-> item.arguments]
ToolCallsOf(items) == [i \in 1..Len(items) |-> ToolCall(items[i])]

\* local._parse_tool_calls: the objects that validate and name a known tool
ParseToolCallsLocal(output) ==
    LET Kept(it) == it.parses /\ it.name \in ALL_TOOL_FUNCTIONS
    IN ToolCallsOf(SelectSeq(output, Kept))

\* openai.chat_async: the calls whose arguments json.loads accepts
ParseToolCallsOpenAI(output) ==
    LET Kept(it) == it.parses
    IN ToolCallsOf(SelectSeq(output, Kept))

\* anthropic.chat_async: every tool_use block
ParseToolCallsAnthropic(output) == ToolCallsOf(output)

ParseToolCalls(prov, output) ==
    CASE prov = "local" -> ParseToolCallsLocal(output)
      [] prov = "openai" -> ParseToolCallsOpenAI(output)
      [] prov = "anthropic" -> ParseToolCallsAnthropic(output)

\* the id of the k-th tool call (OpenAI) or tool_use block (Anthropic) of
\* the first response
CallId(k) == <<"call", k>>

\* the tool_call_id / tool_use_id of the tool-result messages of the
\* follow-up request: response_message.tool_calls[i].id (OpenAI) and
\* tool_use_blocks[i].id (Anthropic) for the i-th result; the local provider
\* sends no tool-result message
ToolResultIds(prov, output, results) ==
    IF prov = "local" THEN << >>
    ELSE [i \in 1..Len(results) |-> CallId(i)]

\* get_followup_instruction
GetFollowupInstruction(results) ==
    IF \E i \in 1..Len(results) : results[i].result.success
    THEN "confirm" ELSE "failed"

\* format_response: the keys tool_calls, tool_results and actions
FormatResponse(calls, results) ==
    LET Succeeded(r) == r.result.success
    IN [tool_calls |-> calls,
        tool_results |-> results,
        actions |-> SelectSeq(results, Succeeded)]

\* chat_async is called: build_system_prompt_with_context asks
\* get_smart_home_context_json, which answers from _context_json_cache or
\* starts the three fetches; with the context in hand the first generate
\* call is issued
TurnStart ==
    /\ turn_pc = "idle"
    /\ tc_pc = "idle"
    /\ IF CacheGet(context_json_cache, now_ms, ContextTtl * 1000) # "None"
       THEN /\ turn_pc' = "awaiting_model"
            /\ generate_count' = 1
            /\ trace' = <<"AwaitingModel">>
            /\ context_source' = IF batch_since_fetch THEN "cache_after_batch"
                                 ELSE "cache"
       ELSE /\ turn_pc' = "fetching_context"
            /\ UNCHANGED <<generate_count, trace, context_source>>
    /\ UNCHANGED <<provider, emitted, turn_calls, turn_results, followup_instruction,
                   followup_ids,
                   response, batch_since_fetch, prev_ok>>
    /\ UNCHANGED <<cbvars, toolvars, rest>>

\* the fetches of devices, rooms and groups are back: the context is stored
\* in _context_json_cache and the first generate call is issued
ContextFetched ==
    /\ turn_pc = "fetching_context"
    /\ context_json_cache' = CacheSet("context", now_ms)
    /\ turn_pc' = "awaiting_model"
    /\ generate_count' = 1
    /\ trace' = <<"AwaitingModel">>
    /\ context_source' = "upstream"
    /\ batch_since_fetch' = FALSE
    /\ UNCHANGED <<provider, emitted, turn_calls, turn_results, followup_instruction,
                   followup_ids,
                   response, prev_ok>>
    /\ UNCHANGED <<now_ms, recent, context_cache, tc_pc, tool_calls, tool_results,
                   returned, invoked, outcomes, checks, recorded, executed_at>>
    /\ UNCHANGED <<cbvars, rest>>

\* the first generate call returns output: the tool calls are parsed, and the
\* turn either ends with the text of the model or goes on to execute them
ModelResponds(output) ==
    /\ turn_pc = "awaiting_model"
    /\ emitted' = output
    /\ LET calls == ParseToolCalls(provider, output)
       IN /\ turn_calls' = calls
          /\ IF calls # << >>
             THEN /\ turn_pc' = "executing"
                  /\ trace' = trace \o <<"ParsingCalls", "Executing">>
                  /\ UNCHANGED response
             ELSE /\ turn_pc' = "done"
                  /\ trace' = trace \o <<"ParsingCalls", "Done">>
                  /\ response' = FormatResponse(calls, << >>)
    /\ UNCHANGED <<provider, turn_results, generate_count, followup_instruction,
                   followup_ids,
                   context_source, batch_since_fetch, prev_ok>>
    /\ UNCHANGED <<cbvars, toolvars, rest>>

\* tool_results = await execute_tool_calls(tool_calls)
ExecuteToolCalls ==
    /\ turn_pc = "executing"
    /\ StartBatch(turn_calls)

\* the identities of the batch whose last execution (not skipped) succeeded,
\* together with those of earlier turns that the batch did not execute
OkAfterBatch ==
    LET n == Len(tool_calls)
        Executed(id) == {i \in 1..n : /\ CallIdentity(tool_calls[i]) = id
                                     /\ outcomes[i] # "skipped"}
        Last(id) == CHOOSE i \in Executed(id) : \A j \in Executed(id) : j <= i
        ids == {CallIdentity(tool_calls[i]) : i \in 1..n}
    IN {id \in prev_ok \cup ids :
           IF Executed(id) # {} THEN outcomes[Last(id)] = "success"
           ELSE id \in prev_ok}

\* execute_tool_calls has returned: the follow-up instruction is chosen and
\* the second generate call is issued
BatchReturns ==
    /\ turn_pc = "executing"
    /\ tc_pc = "done"
    /\ turn_results' = returned
    /\ followup_instruction' = GetFollowupInstruction(returned)
    /\ followup_ids' = ToolResultIds(provider, emitted, returned)
    /\ generate_count' = generate_count + 1
    /\ turn_pc' = "awaiting_followup"
    /\ trace' = Append(trace, "AwaitingFollowup")
    /\ batch_since_fetch' = TRUE
    /\ prev_ok' = OkAfterBatch
    /\ UNCHANGED <<provider, emitted, turn_calls, response, context_source>>
    /\ UNCHANGED <<cbvars, toolvars, rest>>

\* the second generate call returns: format_response
FollowupResponds ==
    /\ turn_pc = "awaiting_followup"
    /\ turn_pc' = "done"
    /\ trace' = Append(trace, "Done")
    /\ response' = FormatResponse(turn_calls, turn_results)
    /\ UNCHANGED <<provider, emitted, turn_calls, turn_results, generate_count,
                   followup_instruction, followup_ids, context_source,
                   batch_since_fetch, prev_ok>>
    /\ UNCHANGED <<cbvars, toolvars, rest>>

\* chat_async has returned; the locals of the turn are gone
TurnReturns ==
    /\ turn_pc = "done"
    /\ turn_pc' = "idle"
    /\ emitted' = << >>
    /\ turn_calls' = << >>
    /\ turn_results' = << >>
    /\ generate_count' = 0
    /\ followup_instruction' = "none"
    /\ followup_ids' = << >>
    /\ response' = NoResponse
    /\ trace' = << >>
    /\ context_source' = "none"
    /\ tc_pc' = "idle"
    /\ tool_calls' = << >>
    /\ tool_results' = << >>
    /\ returned' = << >>
    /\ invoked' = << >>
    /\ outcomes' = << >>
    /\ checks' = << >>
    /\ UNCHANGED <<provider, batch_since_fetch, prev_ok>>
    /\ UNCHANGED <<now_ms, recent, context_cache, context_json_cache, recorded,
                   executed_at>>
    /\ UNCHANGED <<cbvars, rest>>

InitTurn ==
    \E prov \in Providers, c1 \in {EmptyCache, FilledCache},
       c2 \in {EmptyCache, FilledCache} :
        BreakerStart /\ ToolsStart(c1, c2) /\ TurnIdle(prov) /\ RestStart

NextTurn ==
    \/ TurnStart
    \/ ContextFetched
    \/ \E output \in Outputs(provider) : ModelResponds(output)
    \/ ExecuteToolCalls
    \/ LoopIteration
    \/ \E outcome \in ToolOutcomes : ToolCompletes(outcome)
    \/ LoopEnd
    \/ BatchReturns
    \/ FollowupResponds
    \/ TurnReturns
    \/ TickMs

SpecTurn == InitTurn /\ [][NextTurn]_vars

(***************************************************************************)
(* Properties of a user turn.                                              *)
(***************************************************************************)
\* a valid tool call, as the specification words it: the item parses and its
\* name is in the tool registry
ValidItem(it) == it.parses /\ it.name \in ALL_TOOL_FUNCTIONS
Registered(name) == name \in ALL_TOOL_FUNCTIONS

NoCallsPath == <<"AwaitingModel", "ParsingCalls", "Done">>
HasCallsPath ==
    <<"AwaitingModel", "ParsingCalls", "Executing", "AwaitingFollowup", "Done">>
IsPrefix(s, t) == Len(s) <= Len(t) /\ \A i \in 1..Len(s) : s[i] = t[i]

\* C11: a turn goes AwaitingModel, ParsingCalls, Done with exactly one
\* generate call and no tool executed when the model emitted no valid tool
\* call, and AwaitingModel, ParsingCalls, Executing, AwaitingFollowup, Done
\* with exactly two generate calls otherwise; tools execute only after the
\* first generate call returned and before the second is issued; the steps
\* occur in no other order
C11_TurnOrder ==
    /\ IsPrefix(trace, NoCallsPath) \/ IsPrefix(trace, HasCallsPath)
    /\ tc_pc \in {"loop", "awaiting"} =>
           turn_pc = "executing" /\ generate_count = 1
    /\ turn_pc = "done" =>
           IF SelectSeq(emitted, ValidItem) = << >>
           THEN trace = NoCallsPath /\ generate_count = 1 /\ tool_calls = << >>
           ELSE trace = HasCallsPath /\ generate_count = 2

\* C12: every ToolCall handed to execute_tool_calls has a registered name,
\* and the result of the turn names no unregistered tool in tool_calls or in
\* tool_results
C12_UnknownDropped ==
    /\ \A i \in 1..Len(tool_calls) : Registered(tool_calls[i].name)
    /\ turn_pc = "done" =>
           /\ \A i \in 1..Len(response.tool_calls) :
                  Registered(response.tool_calls[i].name)
           /\ \A i \in 1..Len(response.tool_results) :
                  Registered(response.tool_results[i].tool)

\* position i of the batch achieved its action: its tool function returned
\* success, or it was skipped as the duplicate of an execution that did
ActuallySucceeded(i) ==
    LET id == CallIdentity(tool_calls[i])
        Before == {j \in 1..(i - 1) : /\ CallIdentity(tool_calls[j]) = id
                                     /\ outcomes[j] # "skipped"}
        Last == CHOOSE j \in Before : \A k \in Before : k <= j
    IN \/ outcomes[i] = "success"
       \/ /\ outcomes[i] = "skipped"
          /\ IF Before # {} THEN outcomes[Last] = "success" ELSE id \in prev_ok

\* C13: the model is told to confirm what was done only when at least one
\* requested action of the turn actually succeeded; when every executed call
\* failed it is told that the action FAILED
C13_FollowupReflectsReality ==
    turn_pc \in {"awaiting_followup", "done"} /\ followup_instruction # "none" =>
        /\ followup_instruction = "confirm" =>
               \E i \in 1..Len(tool_calls) : ActuallySucceeded(i)
        /\ (\A i \in 1..Len(tool_calls) : ~ActuallySucceeded(i)) =>
               followup_instruction = "failed"

\* C14: when execute_tool_calls has returned for a batch in which a tool
\* executed successfully, neither context cache holds data, and no later
\* context request is answered from a cache filled before the batch
C14_ContextInvalidated ==
    /\ (tc_pc = "done" /\ \E i \in 1..Len(outcomes) : outcomes[i] = "success") =>
           /\ context_cache.data = "None"
           /\ context_json_cache.data = "None"
           /\ CacheGet(context_cache, now_ms, ContextTtl * 1000) = "None"
           /\ CacheGet(context_json_cache, now_ms, ContextTtl * 1000) = "None"
    /\ context_source # "cache_after_batch"

\* the turn fetched the context into the cache, a tool of its batch succeeded,
\* and execute_tool_calls has returned
C14_Witness ==
    /\ tc_pc = "done"
    /\ context_source = "upstream"
    /\ \E i \in 1..Len(outcomes) : outcomes[i] = "success"

\* the position, in the first response, of the tool call whose execution
\* produced the i-th result: the i-th of the calls that were not discarded
OriginOf(i) ==
    LET kept == {k \in 1..Len(emitted) : emitted[k].parses}
    IN CHOOSE k \in kept : Cardinality({j \in kept : j <= k}) = i

\* C36: in the follow-up request of the OpenAI and Anthropic providers there
\* is one tool-result message per result, and each carries the id of the
\* tool call of the first response that produced it, also when calls of
\* that response were discarded
C36_ResultsCarryTheirCallId ==
    (turn_pc = "awaiting_followup" /\ provider \in {"openai", "anthropic"}) =>
        /\ Len(followup_ids) = Len(turn_results)
        /\ \A i \in 1..Len(followup_ids) : followup_ids[i] = CallId(OriginOf(i))

(***************************************************************************)
(* ConversationSession and ConversationManager (belle/conversation.py)     *)
(***************************************************************************)
\* Message(role, content); the content of the n-th exchange is n
Message(role, content) == [role |-> role, content |-> content]

\* ConversationSession(session_id, max_history) constructed at time t
NewSession(t) == [messages |-> << >>, last_activity |-> t]

\* the slice messages[-k:] of Python: -0 is 0, so messages[-0:] is the whole
\* list
LastSlice(messages, k) ==
    IF k = 0 \/ k >= Len(messages) THEN messages
    ELSE SubSeq(messages, Len(messages) - k + 1, Len(messages))

\* ConversationSession.add_message at time t with max_history = mh
SessionAddMessage(session, msg, t, mh) ==
    LET added == Append(session.messages, msg)
    IN [messages |-> IF Len(added) > mh THEN LastSlice(added, mh) ELSE added,
        last_activity |-> t]

\* ConversationSession.add_exchange
SessionAddExchange(session, content, t, mh) ==
    SessionAddMessage(
        SessionAddMessage(session, Message("user", content), t, mh),
        Message("assistant", content), t, mh)

\* ConversationSession.clear at time t
SessionClear(session, t) == [messages |-> << >>, last_activity |-> t]

\* mutant: a session never expires
IsExpiredNever(session, t, ttl) == FALSE

\* ConversationSession.is_expired(ttl) at time t
IsExpired(session, t, ttl) == (t - session.last_activity) > ttl

\* ConversationManager._cleanup_expired at time t
CleanupExpiredSessions(ss, t) ==
    LET expired == {sid \in DOMAIN ss : IsExpired(ss[sid], t, DEFAULT_SESSION_TTL)}
    IN [sid \in (DOMAIN ss) \ expired |-> ss[sid]]

\* _sessions after ConversationManager.get_session(id) at time t
WithSession(ss, id, t) ==
    LET kept == CleanupExpiredSessions(ss, t)
    IN IF id \in DOMAIN kept THEN kept
       ELSE [sid \in (DOMAIN kept) \cup {id} |->
                IF sid = id THEN NewSession(t) ELSE kept[sid]]

\* the ids for which get_session(id) constructs a session
FreshIds(id) ==
    IF id \in DOMAIN CleanupExpiredSessions(sessions, conv_now) THEN {} ELSE {id}

\* the ghost last_touch after a step that leaves the sessions ss and
\* constructs, adds to or clears the sessions in changed
TouchAfter(ss, changed) ==
    [sid \in SessionIds |->
        IF sid \notin DOMAIN ss THEN -1
        ELSE IF sid \in changed THEN conv_now
        ELSE last_touch[sid]]

\* the ghost appended after a step that leaves the sessions ss, makes the
\* sessions in fresh empty and appends the messages new to session id
AppendedAfter(ss, fresh, id, new) ==
    [sid \in SessionIds |->
        IF sid \notin DOMAIN ss THEN << >>
        ELSE (IF sid \in fresh THEN << >> ELSE appended[sid])
             \o (IF sid = id THEN new ELSE << >>)]

\* ConversationManager.get_session(id)
GetSession(id) ==
    /\ sessions' = WithSession(sessions, id, conv_now)
    /\ appended' = AppendedAfter(sessions', FreshIds(id), id, << >>)
    /\ last_touch' = TouchAfter(sessions', FreshIds(id))
    /\ conv_op' = "get_session"
    /\ last_history' = NoHistory
    /\ UNCHANGED <<conv_now, max_history, next_content>>
    /\ UNCHANGED notconv

\* ConversationManager.get_history(id)
GetHistory(id) ==
    /\ sessions' = WithSession(sessions, id, conv_now)
    /\ appended' = AppendedAfter(sessions', FreshIds(id), id, << >>)
    /\ last_touch' = TouchAfter(sessions', FreshIds(id))
    /\ last_history' =
           [id |-> id,
            history |-> sessions'[id].messages,
            idle |-> /\ last_touch[id] >= 0
                     /\ conv_now - last_touch[id] > DEFAULT_SESSION_TTL,
            prior |-> Len(appended[id])]
    /\ conv_op' = "get_history"
    /\ UNCHANGED <<conv_now, max_history, next_content>>
    /\ UNCHANGED notconv

\* ConversationManager.add_exchange(id, user_message, assistant_response)
AddExchange(id) ==
    /\ next_content <= MaxExchanges
    /\ LET ss == WithSession(sessions, id, conv_now)
       IN sessions' = [ss EXCEPT ![id] =
              SessionAddExchange(ss[id], next_content, conv_now, max_history)]
    /\ appended' = AppendedAfter(sessions', FreshIds(id), id,
           <<Message("user", next_content), Message("assistant", next_content)>>)
    /\ last_touch' = TouchAfter(sessions', {id})
    /\ next_content' = next_content + 1
    /\ conv_op' = "add_exchange"
    /\ last_history' = NoHistory
    /\ UNCHANGED <<conv_now, max_history>>
    /\ UNCHANGED notconv

\* get_session(id).add_message(role, content)
AddMessage(id, role) ==
    /\ next_content <= MaxExchanges
    /\ LET ss == WithSession(sessions, id, conv_now)
       IN sessions' = [ss EXCEPT ![id] =
              SessionAddMessage(ss[id], Message(role, next_content), conv_now,
                                max_history)]
    /\ appended' = AppendedAfter(sessions', FreshIds(id), id,
                                 <<Message(role, next_content)>>)
    /\ last_touch' = TouchAfter(sessions', {id})
    /\ next_content' = next_content + 1
    /\ conv_op' = "add_message"
    /\ last_history' = NoHistory
    /\ UNCHANGED <<conv_now, max_history>>
    /\ UNCHANGED notconv

\* ConversationManager.clear_session(id): no cleanup; clears the session if
\* there is one
ClearSession(id) ==
    /\ sessions' = IF id \in DOMAIN sessions
                   THEN [sessions EXCEPT ![id] = SessionClear(sessions[id], conv_now)]
                   ELSE sessions
    /\ appended' = AppendedAfter(sessions', {id}, id, << >>)
    /\ last_touch' = TouchAfter(sessions', {id})
    /\ conv_op' = "clear_session"
    /\ last_history' = NoHistory
    /\ UNCHANGED <<conv_now, max_history, next_content>>
    /\ UNCHANGED notconv

\* ConversationManager.remove_session(id)
RemoveSession(id) ==
    /\ sessions' = [sid \in (DOMAIN sessions) \ {id} |-> sessions[sid]]
    /\ appended' = AppendedAfter(sessions', {}, id, << >>)
    /\ last_touch' = TouchAfter(sessions', {})
    /\ conv_op' = "remove_session"
    /\ last_history' = NoHistory
    /\ UNCHANGED <<conv_now, max_history, next_content>>
    /\ UNCHANGED notconv

\* ConversationManager.get_stats()
GetStats ==
    /\ sessions' = CleanupExpiredSessions(sessions, conv_now)
    /\ appended' = AppendedAfter(sessions', {}, "none", << >>)
    /\ last_touch' = TouchAfter(sessions', {})
    /\ conv_op' = "get_stats"
    /\ last_history' = NoHistory
    /\ UNCHANGED <<conv_now, max_history, next_content>>
    /\ UNCHANGED notconv

\* time passes
ConvTick ==
    /\ conv_now + ConvClockStep <= MaxConvTime
    /\ conv_now' = conv_now + ConvClockStep
    /\ conv_op' = "none"
    /\ last_history' = NoHistory
    /\ UNCHANGED <<max_history, sessions, next_content, appended, last_touch>>
    /\ UNCHANGED notconv

\* a manager constructed with max_history in 0..MaxHist, or with the default
InitConv ==
    \E mh \in (0..MaxHist) \cup {DEFAULT_MAX_HISTORY} :
        /\ BreakerStart
        /\ ToolsStart(EmptyCache, EmptyCache)
        /\ TurnIdle("local")
        /\ ConvStart(mh)
        /\ CachesStart
        /\ DevStart
        /\ MoreStart

NextConv ==
    \/ \E id \in SessionIds : GetSession(id)
    \/ \E id \in SessionIds : GetHistory(id)
    \/ \E id \in SessionIds : AddExchange(id)
    \/ \E id \in SessionIds : AddMessage(id, "user")
    \/ \E id \in SessionIds : ClearSession(id)
    \/ \E id \in SessionIds : RemoveSession(id)
    \/ GetStats
    \/ ConvTick

SpecConv == InitConv /\ [][NextConv]_vars

(***************************************************************************)
(* Properties of the conversation history.                                 *)
(***************************************************************************)
\* C15: for every non-negative max_history, the history of every session
\* holds at most max_history messages after any add_message, add_exchange
\* or clear
C15_HistoryBounded ==
    \A id \in DOMAIN sessions : Len(sessions[id].messages) <= max_history

\* the last n elements of log, oldest first
LastOf(log, n) == [i \in 1..n |-> log[Len(log) - n + i]]
Min(a, b) == IF a <= b THEN a ELSE b

\* C16: the history of a session is exactly the last min(m, max_history) of
\* the m messages appended to it since it was fresh, in the order they were
\* appended
C16_LastMessagesKept ==
    /\ \A id \in DOMAIN sessions :
           sessions[id].messages =
               LastOf(appended[id], Min(Len(appended[id]), max_history))
    /\ last_history.id # "none" =>
           last_history.history =
               LastOf(appended[last_history.id],
                      Min(Len(appended[last_history.id]), max_history))

\* C17: get_history on a session idle for more than the session TTL gives
\* the empty history, and get_session, get_history, add_exchange and
\* get_stats leave no expired session behind
C17_ExpiredNeverReturned ==
    /\ last_history.idle => last_history.history = << >>
    /\ conv_op \in {"get_session", "get_history", "add_exchange", "get_stats"} =>
           \A id \in DOMAIN sessions :
               conv_now - sessions[id].last_activity <= DEFAULT_SESSION_TTL

\* get_history was called for a session that held messages and had been idle
\* for more than the TTL
C17_Witness ==
    /\ last_history.idle
    /\ last_history.prior > 0
    /\ last_history.history = << >>

(***************************************************************************)
(* The two cache classes on their own (belle/http.py).                     *)
(***************************************************************************)
\* the values that are cached
CacheValues == {"x", "y"}

\* cache.get() on the Cache
FixedGet ==
    /\ fixed_got' = [called |-> TRUE,
                     value |-> CacheGet(fixed_cache, cache_now, ContextTtl),
                     ttl |-> ContextTtl]
    /\ UNCHANGED <<cache_now, fixed_cache, fixed_set>>
    /\ UNCHANGED <<smartvars, notcache>>

\* cache.set(x) on the Cache
FixedSet(x) ==
    /\ fixed_cache' = CacheSet(x, cache_now)
    /\ fixed_set' = [value |-> x, at |-> cache_now]
    /\ fixed_got' = NoGet
    /\ UNCHANGED cache_now
    /\ UNCHANGED <<smartvars, notcache>>

\* cache.clear() on the Cache
FixedClear ==
    /\ fixed_cache' = CacheClear(fixed_cache)
    /\ fixed_set' = NoSet
    /\ fixed_got' = NoGet
    /\ UNCHANGED cache_now
    /\ UNCHANGED <<smartvars, notcache>>

\* time passes
CacheTick ==
    /\ cache_now + CacheClockStep <= MaxCacheTime
    /\ cache_now' = cache_now + CacheClockStep
    /\ fixed_got' = NoGet
    /\ smart_got' = NoGet
    /\ UNCHANGED <<fixed_cache, fixed_set, smart_cache, smart_set, smart_clear_at,
                   smart_expired>>
    /\ UNCHANGED notcache

\* cache.get() on the SmartCache
SmartCacheGet ==
    /\ smart_got' = [called |-> TRUE,
                     value |-> SmartGet(smart_cache, cache_now),
                     ttl |-> EffectiveTtl(smart_cache, cache_now)]
    /\ smart_expired' = (\/ smart_expired
                         \/ /\ smart_cache.data # "None"
                            /\ SmartGet(smart_cache, cache_now) = "None")
    /\ UNCHANGED <<smart_cache, smart_set, smart_clear_at>>
    /\ UNCHANGED <<cachevars, notcache>>

\* cache.set(x) on the SmartCache
SmartCacheSet(x) ==
    /\ smart_cache' = SmartSet(smart_cache, x, cache_now)
    /\ smart_set' = [value |-> x, at |-> cache_now]
    /\ smart_got' = NoGet
    /\ smart_expired' = FALSE
    /\ UNCHANGED smart_clear_at
    /\ UNCHANGED <<cachevars, notcache>>

\* cache.clear() on the SmartCache
SmartCacheClear ==
    /\ smart_cache' = SmartClear(smart_cache, cache_now)
    /\ smart_set' = NoSet
    /\ smart_clear_at' = cache_now
    /\ smart_got' = NoGet
    /\ smart_expired' = FALSE
    /\ UNCHANGED <<cachevars, notcache>>

\* cache.invalidate_only() on the SmartCache
SmartCacheInvalidateOnly ==
    /\ smart_cache' = SmartInvalidateOnly(smart_cache)
    /\ smart_set' = NoSet
    /\ smart_got' = NoGet
    /\ smart_expired' = FALSE
    /\ UNCHANGED smart_clear_at
    /\ UNCHANGED <<cachevars, notcache>>

InitCache ==
    /\ BreakerStart
    /\ ToolsStart(EmptyCache, EmptyCache)
    /\ TurnIdle("local")
    /\ ConvStart(DEFAULT_MAX_HISTORY)
    /\ CachesStart
    /\ DevStart
    /\ MoreStart

NextCache ==
    \/ FixedGet
    \/ \E x \in CacheValues : FixedSet(x)
    \/ FixedClear
    \/ CacheTick

NextSmartCache ==
    \/ SmartCacheGet
    \/ \E x \in CacheValues : SmartCacheSet(x)
    \/ SmartCacheClear
    \/ SmartCacheInvalidateOnly
    \/ CacheTick

SpecCache == InitCache /\ [][NextCache]_vars

SpecSmartCache == InitCache /\ [][NextSmartCache]_vars

(***************************************************************************)
(* Properties of the caches.                                               *)
(***************************************************************************)
\* what get() has to answer at time t when the last set stored s and the
\* entry lives for ttl
Expected(s, t, ttl) ==
    IF s.at < 0 THEN "None"
    ELSE IF t - s.at <= ttl THEN s.value
    ELSE "None"

\* the TTL a SmartCache has to apply at time t: short exactly when the
\* most recent clear() was less than activity_window ago
ExpectedTtl(t) ==
    IF smart_clear_at >= 0 /\ t - smart_clear_at < activity_window
    THEN short_ttl ELSE base_ttl

\* C18: SmartCache.get() applies short_ttl exactly when the most recent
\* clear() was less than activity_window ago and base_ttl otherwise, whatever
\* set() and invalidate_only() were called; the value it returns expires
\* accordingly
C18_AdaptiveTtl ==
    smart_got.called =>
        /\ smart_got.ttl = ExpectedTtl(cache_now)
        /\ smart_got.value = Expected(smart_set, cache_now, ExpectedTtl(cache_now))

\* a value set after clear() is gone after more than short_ttl although
\* it is younger than base_ttl
C18_Witness ==
    /\ smart_got.called
    /\ smart_got.ttl = short_ttl
    /\ smart_got.value = "None"
    /\ smart_set.at >= smart_clear_at
    /\ smart_set.at >= 0
    /\ cache_now - smart_set.at > short_ttl
    /\ cache_now - smart_set.at <= base_ttl

\* C19: Cache.get() returns the value of the most recent set(x) as long as
\* now - storedAt <= ttl, and None when nothing was set, after clear(), or
\* once now - storedAt > ttl
C19_FixedTtl ==
    fixed_got.called =>
        fixed_got.value = Expected(fixed_set, cache_now, ContextTtl)

\* get() returns the value that was set exactly ttl ago
C19_Witness ==
    /\ fixed_got.called
    /\ fixed_got.value # "None"
    /\ cache_now - fixed_set.at = ContextTtl

\* C37: once get() has answered None for a stored value because it had
\* expired, every get() answers None until the next set()
C37_ExpiryIsPermanent ==
    (smart_expired /\ smart_got.called) => smart_got.value = "None"

(***************************************************************************)
(* The snapshot caches of the tool modules (belle/tools).                  *)
(***************************************************************************)
\* the control functions
ControlFunctions ==
    {"control_device", "control_shade", "control_room", "control_room_shades",
     "control_group"}

\* the module-level cache a control function reads and clears: its own
OwnCache(fn) ==
    CASE fn \in {"control_device", "control_shade"} -> "devices"
      [] fn \in {"control_room", "control_room_shades"} -> "rooms"
      [] fn = "control_group" -> "groups"

\* the list upstream answers a fetch with, named by the state it shows
Fetched == ToString(upstream)

\* the cache k after _get_cached_devices / _get_cached_rooms /
\* _get_cached_groups: as it was on a hit, refreshed from upstream on a miss
AfterCachedRead(c) ==
    IF SmartGet(c, dev_now) # "None" THEN c
    ELSE SmartSet(c, Fetched, dev_now)

\* a tool reads a snapshot through the cache (get_device_status and the
\* like): the cached list, or a fetch that is stored
CachedRead(k) ==
    /\ snapshot_cache' = [snapshot_cache EXCEPT ![k] = AfterCachedRead(@)]
    /\ dev_read' = [kind |-> k,
                    from_cache |-> SmartGet(snapshot_cache[k], dev_now) # "None",
                    data |-> snapshot_cache'[k].data]
    /\ UNCHANGED <<dev_now, upstream>>
    /\ UNCHANGED notdev

\* get_all_devices / get_all_rooms / get_all_groups: always a fresh fetch,
\* which is stored
Refresh(k) ==
    /\ snapshot_cache' = [snapshot_cache EXCEPT ![k] = SmartSet(@, Fetched, dev_now)]
    /\ dev_read' = NoRead
    /\ UNCHANGED <<dev_now, upstream>>
    /\ UNCHANGED notdev

\* a control function that finds its target: the lookup through its own
\* cache, the PUT (or the PUTs of the members), and the clear of its own
\* cache; control_device and control_shade return before the clear when the
\* PUT fails, the room and group functions clear after the loop in any case
Control(fn, put_ok) ==
    /\ put_ok => upstream < MaxControls
    /\ upstream' = IF put_ok THEN upstream + 1 ELSE upstream
    /\ LET k == OwnCache(fn)
           looked_up == AfterCachedRead(snapshot_cache[k])
       IN snapshot_cache' = [snapshot_cache EXCEPT ![k] =
              IF put_ok \/ k # "devices" THEN SmartClear(looked_up, dev_now)
              ELSE looked_up]
    /\ dev_read' = NoRead
    /\ UNCHANGED dev_now
    /\ UNCHANGED notdev

\* time passes
DevTick ==
    /\ dev_now + DevClockStep <= MaxDevTime
    /\ dev_now' = dev_now + DevClockStep
    /\ dev_read' = NoRead
    /\ UNCHANGED <<upstream, snapshot_cache>>
    /\ UNCHANGED notdev

InitDevices ==
    /\ BreakerStart
    /\ ToolsStart(EmptyCache, EmptyCache)
    /\ TurnIdle("local")
    /\ ConvStart(DEFAULT_MAX_HISTORY)
    /\ CachesStart
    /\ DevStart
    /\ MoreStart

NextDevices ==
    \/ \E k \in Snapshots : CachedRead(k)
    \/ \E k \in Snapshots : Refresh(k)
    \/ \E fn \in ControlFunctions, put_ok \in BOOLEAN : Control(fn, put_ok)
    \/ DevTick

SpecDevices == InitDevices /\ [][NextDevices]_vars

(***************************************************************************)
(* Properties of the snapshot caches.                                      *)
(***************************************************************************)
\* C20: after a successful control call of any of the five functions, a
\* cached read of the devices, and likewise of the rooms and of the groups,
\* does not return the snapshot cached before the call: a read answered from
\* the cache gives a snapshot fetched after the last successful control call
C20_SnapshotsInvalidated ==
    dev_read.kind # "none" /\ dev_read.from_cache => dev_read.data = Fetched

(***************************************************************************)
(* The name resolver: normalize_name, find_by_name and                     *)
(* get_close_matches_for_name (belle/http.py).  A str is the sequence of   *)
(* its characters; an item is a dict with "id" and "name".                 *)
(***************************************************************************)
\* the longest list handed to the resolver
MaxItems == 3

Lowers == <<"a", "b", "c", "d", "e", "f", "g", "h", "i", "j", "k", "l", "m",
            "n", "o", "p", "q", "r", "s", "t", "u", "v", "w", "x", "y", "z">>
Uppers == <<"A", "B", "C", "D", "E", "F", "G", "H", "I", "J", "K", "L", "M",
            "N", "O", "P", "Q", "R", "S", "T", "U", "V", "W", "X", "Y", "Z">>

\* the characters \s matches and strip() removes
Whitespace == {" ", "\t"}

\* str.lower()
Lower(str) ==
    [i \in 1..Len(str) |->
        IF \E k \in DOMAIN Uppers : Uppers[k] = str[i]
        THEN Lowers[CHOOSE k \in DOMAIN Uppers : Uppers[k] = str[i]]
        ELSE str[i]]

RECURSIVE LStrip(_)
LStrip(str) ==
    IF str = << >> THEN << >>
    ELSE IF Head(str) \in Whitespace THEN LStrip(Tail(str))
    ELSE str

RECURSIVE RStrip(_)
RStrip(str) ==
    IF str = << >> THEN << >>
    ELSE IF str[Len(str)] \in Whitespace THEN RStrip(SubSeq(str, 1, Len(str) - 1))
    ELSE str

\* str.strip()
Strip(str) == RStrip(LStrip(str))

\* re.sub(r'\s+', ' ', str)
RECURSIVE CollapseWhitespace(_)
CollapseWhitespace(str) ==
    IF str = << >> THEN << >>
    ELSE IF Head(str) \in Whitespace
         THEN <<" ">> \o CollapseWhitespace(LStrip(Tail(str)))
    ELSE <<Head(str)>> \o CollapseWhitespace(Tail(str))

\* normalize_name that leaves the runs of internal whitespace as they are
NormalizeNameKeepsRuns(name) == Strip(Lower(name))

\* normalize_name: lowercase, strip, collapse the whitespace runs
NormalizeName(name) == CollapseWhitespace(Strip(Lower(name)))

\* x in y, of two str
IsSubstring(x, y) ==
    \E i \in 0..(Len(y) - Len(x)) : SubSeq(y, i + 1, i + Len(x)) = x

\* how far a[i:] and b[j:] agree
RECURSIVE CommonLen(_, _, _, _)
CommonLen(a, b, i, j) ==
    IF i > Len(a) THEN 0
    ELSE IF j > Len(b) THEN 0
    ELSE IF a[i] # b[j] THEN 0
    ELSE 1 + CommonLen(a, b, i + 1, j + 1)

\* SequenceMatcher.find_longest_match over all of a and b (no junk: the
\* names are far shorter than the 200 elements autojunk needs): the longest
\* common block, the one that starts earliest in a, then earliest in b
LongestMatch(a, b) ==
    LET size == CHOOSE k \in 0..Len(a) :
                    /\ k = 0 \/ \E i \in 1..Len(a), j \in 1..Len(b) :
                                    CommonLen(a, b, i, j) = k
                    /\ \A i \in 1..Len(a), j \in 1..Len(b) :
                            CommonLen(a, b, i, j) <= k
        starts == {i \in 1..Len(a) :
                      \E j \in 1..Len(b) : CommonLen(a, b, i, j) = size}
        i0 == CHOOSE i \in starts : \A i2 \in starts : i <= i2
        js == {j \in 1..Len(b) : CommonLen(a, b, i0, j) = size}
        j0 == CHOOSE j \in js : \A j2 \in js : j <= j2
    IN IF size = 0 THEN [i |-> 0, j |-> 0, size |-> 0]
       ELSE [i |-> i0, j |-> j0, size |-> size]

\* the sum of the sizes of SequenceMatcher.get_matching_blocks(): the longest
\* block, then the same to its left and to its right
RECURSIVE MatchingCount(_, _)
MatchingCount(a, b) ==
    IF a = << >> THEN 0
    ELSE IF b = << >> THEN 0
    ELSE LET m == LongestMatch(a, b)
         IN IF m.size = 0 THEN 0
            ELSE m.size
                 + MatchingCount(SubSeq(a, 1, m.i - 1), SubSeq(b, 1, m.j - 1))
                 + MatchingCount(SubSeq(a, m.i + m.size, Len(a)),
                                 SubSeq(b, m.j + m.size, Len(b)))

\* SequenceMatcher(None, a, b).ratio() as a fraction: 2.0 * matches / length,
\* and 1.0 for two empty strings
Ratio(a, b) ==
    IF Len(a) + Len(b) = 0 THEN [num |-> 1, den |-> 1]
    ELSE [num |-> 2 * MatchingCount(a, b), den |-> Len(a) + Len(b)]

\* r > s and r >= s of two ratios
Exceeds(r, s) == r.num * s.den > s.num * r.den
AtLeast(r, s) == r.num * s.den >= s.num * r.den

\* the least index of a non-empty set of indices, 0 (None) of the empty set
FirstOf(S) == IF S = {} THEN 0 ELSE CHOOSE i \in S : \A j \in S : i <= j

\* cutoff of get_close_matches_for_name, and its n
SuggestCutoff == [num |-> 4, den |-> 10]
MaxSuggestions == 3

\* a fuzzy threshold as low as the cutoff of the suggestions
FuzzyThresholdAsCutoff == [num |-> 4, den |-> 10]

\* best_ratio = 0.6, the least similarity of a fuzzy match
FuzzyThreshold == [num |-> 6, den |-> 10]

\* the items the first three stages of find_by_name stop at
ExactHits(items, q) ==
    {i \in DOMAIN items : NormalizeName(items[i].name) = q}
PartialHits(items, q) ==
    {i \in DOMAIN items :
        \/ IsSubstring(q, NormalizeName(items[i].name))
        \/ IsSubstring(NormalizeName(items[i].name), q)}
IdHits(items, q) ==
    {i \in DOMAIN items : NormalizeName(items[i].id) = q}

\* the fuzzy loop of find_by_name from item k on: best_match (an index, 0 for
\* None) with best_ratio as they stand after the last item
RECURSIVE FuzzyLoop(_, _, _, _)
FuzzyLoop(items, q, k, best) ==
    IF k > Len(items) THEN best.match
    ELSE LET ratio == Ratio(q, NormalizeName(items[k].name))
         IN IF Exceeds(ratio, best.ratio)
            THEN FuzzyLoop(items, q, k + 1, [match |-> k, ratio |-> ratio])
            ELSE FuzzyLoop(items, q, k + 1, best)

FuzzyMatch(items, q) == FuzzyLoop(items, q, 1, [match |-> 0, ratio |-> FuzzyThreshold])

\* find_by_name with the substring stage in front of the exact stage
FindByNamePartialFirst(items, name) ==
    LET q == NormalizeName(name)
    IN IF PartialHits(items, q) # {} THEN FirstOf(PartialHits(items, q))
       ELSE IF ExactHits(items, q) # {} THEN FirstOf(ExactHits(items, q))
       ELSE IF IdHits(items, q) # {} THEN FirstOf(IdHits(items, q))
       ELSE FuzzyMatch(items, q)

\* find_by_name: the index of the item returned, 0 for None
FindByName(items, name) ==
    LET q == NormalizeName(name)
    IN IF ExactHits(items, q) # {} THEN FirstOf(ExactHits(items, q))
       ELSE IF PartialHits(items, q) # {} THEN FirstOf(PartialHits(items, q))
       ELSE IF IdHits(items, q) # {} THEN FirstOf(IdHits(items, q))
       ELSE FuzzyMatch(items, q)

\* list.sort(key=ratio, reverse=True): by falling ratio, equal ratios in the
\* order they had
RECURSIVE SortByRatio(_)
SortByRatio(matches) ==
    IF matches = << >> THEN << >>
    ELSE LET top == {i \in DOMAIN matches :
                        \A j \in DOMAIN matches :
                            AtLeast(matches[i].ratio, matches[j].ratio)}
             first == FirstOf(top)
         IN <<matches[first]>>
            \o SortByRatio(SubSeq(matches, 1, first - 1)
                           \o SubSeq(matches, first + 1, Len(matches)))

\* the (name, ratio) pairs of the items from k on that reach the cutoff
RECURSIVE CloseMatches(_, _, _)
CloseMatches(items, q, k) ==
    IF k > Len(items) THEN << >>
    ELSE LET ratio == Ratio(q, NormalizeName(items[k].name))
         IN (IF AtLeast(ratio, SuggestCutoff)
             THEN <<[name |-> items[k].name, ratio |-> ratio]>>
             ELSE << >>)
            \o CloseMatches(items, q, k + 1)

\* get_close_matches_for_name: the names as the items spell them, the most
\* similar first, at most n of them
GetCloseMatchesForName(items, name) ==
    LET sorted == SortByRatio(CloseMatches(items, NormalizeName(name), 1))
        kept == SubSeq(sorted, 1, IF Len(sorted) < MaxSuggestions
                                  THEN Len(sorted) ELSE MaxSuggestions)
    IN [i \in 1..Len(kept) |-> kept[i].name]

\* the items the lists are made of
ItemPool ==
    {[id |-> <<"1">>, name |-> <<"D", "e", "n", " ", "L", "a", "m", "p">>],
     [id |-> <<"2">>, name |-> <<"L", "a", "m", "p">>],
     [id |-> <<"l", "a", "m", "p">>, name |-> <<"F", "a", "n">>],
     [id |-> <<"4">>, name |-> <<"L", "a", "m", "b">>]}

\* the lists of up to MaxItems different items, in any order
ItemLists ==
    {list \in UNION {[1..n -> ItemPool] : n \in 0..MaxItems} :
        \A i, j \in DOMAIN list : i # j => list[i] # list[j]}

\* the names searched for, in normal form
QueryBases == {"lamp", "den lamp", "lam", "2", "lamq", "lxmx", "zzz", ""}
QueryText(base) ==
    CASE base = "lamp" -> <<"l", "a", "m", "p">>
      [] base = "den lamp" -> <<"d", "e", "n", " ", "l", "a", "m", "p">>
      [] base = "lam" -> <<"l", "a", "m">>
      [] base = "2" -> <<"2">>
      [] base = "lamq" -> <<"l", "a", "m", "q">>
      [] base = "lxmx" -> <<"l", "x", "m", "x">>
      [] base = "zzz" -> <<"z", "z", "z">>
      [] base = "" -> << >>

\* str.upper()
Upper(str) ==
    [i \in 1..Len(str) |->
        IF \E k \in DOMAIN Lowers : Lowers[k] = str[i]
        THEN Uppers[CHOOSE k \in DOMAIN Lowers : Lowers[k] = str[i]]
        ELSE str[i]]

\* every blank of str made a run of a blank and a tab
RECURSIVE Widen(_)
Widen(str) ==
    IF str = << >> THEN << >>
    ELSE IF Head(str) = " " THEN <<" ", "\t">> \o Widen(Tail(str))
    ELSE <<Head(str)>> \o Widen(Tail(str))

\* the ways a caller spells a name: as it is, in capitals, with whitespace
\* around it, with longer runs of whitespace inside it
Spellings == {"plain", "upper", "padded", "wide"}
Spell(base, spelling) ==
    CASE spelling = "plain" -> QueryText(base)
      [] spelling = "upper" -> Upper(QueryText(base))
      [] spelling = "padded" -> <<" ", "\t">> \o QueryText(base) \o <<" ">>
      [] spelling = "wide" -> Widen(QueryText(base))

\* find_by_name(items, name) and get_close_matches_for_name(items, name) of
\* one name, the way the control tools call the two
Resolve(base, spelling) ==
    /\ res_query' = [base |-> base, spelling |-> spelling]
    /\ res_found' = FindByName(res_items, Spell(base, spelling))
    /\ res_suggest' = GetCloseMatchesForName(res_items, Spell(base, spelling))
    /\ UNCHANGED res_items
    /\ UNCHANGED notres

InitResolver ==
    /\ BreakerStart
    /\ ToolsStart(EmptyCache, EmptyCache)
    /\ TurnIdle("local")
    /\ ConvStart(DEFAULT_MAX_HISTORY)
    /\ CachesStart
    /\ DevStart
    /\ ControlIdle
    /\ ContextIdle
    /\ anth_messages = << >>
    /\ LateStart
    /\ \E list \in ItemLists : ResolverIdle(list)

NextResolver ==
    \E base \in QueryBases, spelling \in Spellings : Resolve(base, spelling)

SpecResolver == InitResolver /\ [][NextResolver]_vars

(***************************************************************************)
(* Claims about the name resolver.                                         *)
(***************************************************************************)
\* the name searched for in the last step, in normal form, and the names
\* of the items in normal form
AskedFor == QueryText(res_query.base)
ItemName(i) == NormalizeName(res_items[i].name)
ExactSet == {i \in DOMAIN res_items : ItemName(i) = AskedFor}
PartialSet ==
    {i \in DOMAIN res_items :
        IsSubstring(AskedFor, ItemName(i)) \/ IsSubstring(ItemName(i), AskedFor)}
IdSet == {i \in DOMAIN res_items : NormalizeName(res_items[i].id) = AskedFor}
SimilarSet ==
    {i \in DOMAIN res_items :
        Exceeds(Ratio(AskedFor, ItemName(i)), [num |-> 6, den |-> 10])}

\* C26: find_by_name returns at the first of the stages exact name, substring,
\* id, fuzzy that has a hit: the first item in input order whose name equals
\* the query whenever there is one, else the first whose name contains the
\* query or is contained in it, else the first whose id equals the query,
\* else only an item more than 0.6 similar, or None
C26_StagesInOrder ==
    res_query # NoQuery =>
        /\ ExactSet # {} => res_found = FirstOf(ExactSet)
        /\ ExactSet = {} /\ PartialSet # {} => res_found = FirstOf(PartialSet)
        /\ ExactSet = {} /\ PartialSet = {} /\ IdSet # {} =>
               res_found = FirstOf(IdSet)
        /\ ExactSet = {} /\ PartialSet = {} /\ IdSet = {} =>
               res_found \in SimilarSet \cup {0}

\* an exact hit was returned although an earlier item matches by substring,
\* and in another list although an earlier one matches by id or by similarity
C26_Witness ==
    /\ res_query # NoQuery
    /\ res_found = 3
    /\ ExactSet = {3}
    /\ 1 \in PartialSet
    /\ 2 \in IdSet \cup SimilarSet

\* C27: however the name searched for is spelled (capitals, whitespace around
\* it, longer runs of whitespace inside it), find_by_name returns the same
\* item, or None for every spelling
C27_SpellingIrrelevant ==
    res_query # NoQuery =>
        \A spelling \in Spellings :
            FindByName(res_items, Spell(res_query.base, spelling)) = res_found

\* a name of two words was found when spelled with a run of whitespace
\* inside it
C27_Witness ==
    /\ res_query = [base |-> "den lamp", spelling |-> "wide"]
    /\ res_found # 0
    /\ Len(res_items) > 1

\* no item is at least 0.6 similar to the name searched for
NoneSimilar ==
    \A i \in DOMAIN res_items :
        ~AtLeast(Ratio(AskedFor, ItemName(i)), [num |-> 6, den |-> 10])

\* C28 as stated: when no item is at least 0.6 similar to the name searched
\* for, find_by_name returns None
C28_NullBelowThreshold ==
    res_query # NoQuery /\ NoneSimilar => res_found = 0

\* C28, amended: when no item matches the name searched for by exact name, by
\* substring or by id, and no item is at least 0.6 similar to it,
\* find_by_name returns None, also when there are suggestions
C28_NullWithoutAnyMatch ==
    /\ res_query # NoQuery
    /\ ExactSet = {} /\ PartialSet = {} /\ IdSet = {}
    /\ NoneSimilar
    => res_found = 0

\* None was returned while there were suggestions
C28_Witness ==
    /\ res_query # NoQuery
    /\ ExactSet = {} /\ PartialSet = {} /\ IdSet = {}
    /\ NoneSimilar
    /\ res_found = 0
    /\ res_suggest # << >>

(***************************************************************************)
(* The control tools: control_device and control_shade                     *)
(* (belle/tools/devices.py), control_room and control_room_shades          *)
(* (belle/tools/rooms.py), control_group (belle/tools/groups.py).  A call  *)
(* is one step: the lookup through the cache of the tool module, the       *)
(* resolver, the PUT requests and the clear of the cache.                  *)
(***************************************************************************)
\* the control tools are called up to MaxCalls times
MaxCalls == 2

SHADE_DEVICE_TYPES == {"Curtain", "Curtain3", "Blind Tilt", "Roller Shade"}

\* "shade", "curtain", "blind", "persiana", "cortina"
ShadeKeywords ==
    {<<"s", "h", "a", "d", "e">>,
     <<"c", "u", "r", "t", "a", "i", "n">>,
     <<"b", "l", "i", "n", "d">>,
     <<"p", "e", "r", "s", "i", "a", "n", "a">>,
     <<"c", "o", "r", "t", "i", "n", "a">>}

\* dict.get(key, default)
Get(dict, key, default) == IF key \in DOMAIN dict THEN dict[key] ELSE default

\* dict.get(key) or fallback, of a str: a missing key and "" both give way
GetOr(dict, key, fallback) ==
    IF key \in DOMAIN dict /\ dict[key] # "" THEN dict[key] ELSE fallback

\* _is_shade_device of rooms.py and groups.py: by deviceType, or by type
\* where there is no deviceType, else by a keyword in the name
IsShadeDevice(device) ==
    LET device_type == GetOr(device, "deviceType", Get(device, "type", "None"))
        name_lower == Lower(Get(device, "name", << >>))
    IN \/ device_type \in SHADE_DEVICE_TYPES
       \/ \E kw \in ShadeKeywords : IsSubstring(kw, name_lower)

\* _is_blind_tilt
IsBlindTilt(device) == Get(device, "deviceType", "None") = "Blind Tilt"

\* the devices upstream knows: four lights, a tilting blind, and a plug
\* that drives a curtain
Spot(n) ==
    [id |-> <<"s", n>>, name |-> <<"S", "p", "o", "t", " ", n>>,
     deviceType |-> "Light", brightness |-> 80]
Slats ==
    [id |-> <<"b", "1">>, name |-> <<"S", "l", "a", "t", "s">>,
     deviceType |-> "Blind Tilt", brightness |-> 50]
Cortina ==
    [id |-> <<"p", "1">>, name |-> <<"C", "o", "r", "t", "i", "n", "a">>,
     deviceType |-> "Plug", brightness |-> 0]

\* GET /devices, GET /rooms and GET /groups: the names and the members do
\* not change, only the state of the devices does
Devices == <<Spot("1"), Spot("2"), Slats, Cortina, Spot("3"), Spot("4")>>
Rooms ==
    <<[id |-> <<"r", "1">>, name |-> <<"D", "e", "n">>,
       devices |-> <<Spot("1"), Slats, Spot("2")>>],
      [id |-> <<"r", "2">>, name |-> <<"N", "o", "o", "k">>,
       devices |-> <<Cortina>>],
      [id |-> <<"r", "3">>, name |-> <<"H", "a", "l", "l">>,
       devices |-> <<Spot("3"), Spot("4")>>]>>
Groups ==
    <<[id |-> <<"g", "1">>, name |-> <<"C", "o", "s", "y">>,
       devices |-> <<Spot("1"), Cortina, Spot("3")>>],
      [id |-> <<"g", "2">>, name |-> <<"D", "r", "a", "p", "e", "s">>,
       devices |-> <<Slats, Cortina>>]>>

\* the names the model calls the tools with, as the caller spells them
TargetText(target) ==
    CASE target = "Den" -> <<"D", "e", "n">>
      [] target = "nook" -> <<"n", "o", "o", "k">>
      [] target = "Hall" -> <<"H", "a", "l", "l">>
      [] target = "Dxnx" -> <<"D", "x", "n", "x">>
      [] target = "Cosy" -> <<"C", "o", "s", "y">>
      [] target = "drapes" -> <<"d", "r", "a", "p", "e", "s">>
      [] target = "spot 1" -> <<"s", "p", "o", "t", " ", "1">>
      [] target = "Slats" -> <<"S", "l", "a", "t", "s">>
      [] target = "Cortina" -> <<"C", "o", "r", "t", "i", "n", "a">>
      [] target = "Spxt" -> <<"S", "p", "x", "t">>

\* the list a control function resolves its target in
Entities(kind) ==
    CASE kind = "devices" -> Devices
      [] kind = "rooms" -> Rooms
      [] kind = "groups" -> Groups

\* a state update: the keys not set are None
EmptyUpdate ==
    [on |-> None, brightness |-> None, color |-> None, colorTemp |-> None]

\* a state_update that takes "on" from the caller alone
StateUpdateOnAsGiven(on, brightness, color_temp) ==
    [on |-> on, brightness |-> brightness, color |-> None, colorTemp |-> color_temp]

\* state_update of control_room and control_group
StateUpdate(on, brightness, color_temp) ==
    [on |-> IF brightness # None /\ brightness[1] > 0 THEN Some(TRUE) ELSE on,
     brightness |-> brightness,
     color |-> None,
     colorTemp |-> color_temp]

\* state_update of control_device: the color carries a brightness, the one
\* asked for if it is not 0, else the one of the device
DeviceStateUpdate(device, on, brightness, color, color_temp) ==
    [StateUpdate(on, brightness, color_temp) EXCEPT
        !.color =
            IF color = None THEN None
            ELSE Some([hue |-> color[1].hue, saturation |-> color[1].saturation,
                       brightness |->
                           IF brightness # None /\ brightness[1] # 0
                           THEN brightness[1] ELSE device.brightness])]

\* _get_shade_state_update of control_room_shades
ShadeStateUpdate(device, action, position) ==
    CASE action = "open" ->
            [EmptyUpdate EXCEPT
                !.on = Some(TRUE),
                !.brightness = Some(IF IsBlindTilt(device) THEN 50 ELSE 100)]
      [] action = "close" ->
            [EmptyUpdate EXCEPT !.on = Some(FALSE), !.brightness = Some(0)]
      [] action = "position" /\ position # None ->
            [EmptyUpdate EXCEPT
                !.on = Some(position[1] > 0),
                !.brightness = Some(IF IsBlindTilt(device)
                                    THEN position[1] \div 2 ELSE position[1])]
      [] OTHER -> EmptyUpdate

\* _get_blind_tilt_position_for_openness
BlindTiltPosition(openness) ==
    IF openness >= 100 THEN 100 ELSE IF openness <= 0 THEN 0 ELSE openness

\* state_update of control_shade ("stop" returns before it is used)
SingleShadeStateUpdate(device, action, position) ==
    CASE action = "open" ->
            [EmptyUpdate EXCEPT !.on = Some(TRUE), !.brightness = Some(100)]
      [] action = "close" ->
            [EmptyUpdate EXCEPT !.on = Some(FALSE), !.brightness = Some(0)]
      [] action = "position" /\ position # None ->
            [EmptyUpdate EXCEPT
                !.on = Some(position[1] > 0),
                !.brightness = Some(IF IsBlindTilt(device)
                                    THEN BlindTiltPosition(position[1])
                                    ELSE position[1])]
      [] OTHER -> EmptyUpdate

\* the elements of list that satisfy keep, in order (a list comprehension)
RECURSIVE Filter(_, _)
Filter(list, keep) ==
    IF list = << >> THEN << >>
    ELSE (IF keep[Head(list)] THEN <<Head(list)>> ELSE << >>)
         \o Filter(Tail(list), keep)

\* a control_room and control_group that leave the shades among their devices
LightsOfUnfiltered(entity) == entity.devices

\* devices of control_room and light_devices of control_group
LightsOf(entity) ==
    Filter(entity.devices, [d \in Range(entity.devices) |-> ~IsShadeDevice(d)])

\* shade_devices of control_room_shades
ShadesOf(entity) ==
    Filter(entity.devices, [d \in Range(entity.devices) |-> IsShadeDevice(d)])

\* the dicts the tools return
Failure(error) == [NoControlResult EXCEPT !.error = error]
NotFound(kind, text, with_suggestions) ==
    [NoControlResult EXCEPT
        !.error = "not found",
        !.suggestions = IF with_suggestions
                        THEN GetCloseMatchesForName(Entities(kind), text)
                        ELSE << >>]
NothingToControl(message) ==
    [NoControlResult EXCEPT !.success = TRUE, !.message = message]

\* the loop over the members: one PUT each, whatever the others answered
MemberPuts(members, updates) ==
    [i \in 1..Len(members) |-> [device |-> members[i].id, state |-> updates[i]]]
MemberResults(members, oks) ==
    [i \in 1..Len(members) |-> [device |-> members[i].name, success |-> oks[i]]]
LoopResult(members, oks) ==
    [NoControlResult EXCEPT
        !.success = \E i \in 1..Len(members) : oks[i],
        !.results = Some(MemberResults(members, oks))]

\* the dict of control_device and control_shade after their one PUT
SingleResult(oks) ==
    IF oks[1] THEN [NoControlResult EXCEPT !.success = TRUE] ELSE Failure("HTTPError")

\* what a call does past the lookup: it returns early with a dict, or it
\* sends one PUT to each of members, in a loop that catches the failure of
\* a member (loop) or as the one PUT of a single device
Early(result) ==
    [early |-> Some(result), members |-> << >>, updates |-> << >>, loop |-> FALSE]
Puts(members, updates, loop) ==
    [early |-> None, members |-> members, updates |-> updates, loop |-> loop]

\* control_room past the lookup of the rooms
ControlRoomPlan(call) ==
    LET text == TargetText(call.target)
        room == FindByName(Rooms, text)
        devices == LightsOf(Rooms[room])
        state_update == StateUpdate(call.on, call.brightness, call.color_temp)
    IN IF room = 0 THEN Early(NotFound("rooms", text, TRUE))
       ELSE IF devices = << >> THEN Early(NothingToControl("Room has no devices"))
       ELSE IF state_update = EmptyUpdate
            THEN Early(Failure("No state changes specified"))
       ELSE Puts(devices, [i \in 1..Len(devices) |-> state_update], TRUE)

\* control_room_shades past the lookup of the rooms
ControlRoomShadesPlan(call) ==
    LET text == TargetText(call.target)
        room == FindByName(Rooms, text)
        shade_devices == ShadesOf(Rooms[room])
    IN IF room = 0 THEN Early(NotFound("rooms", text, TRUE))
       ELSE IF shade_devices = << >>
            THEN Early(Failure("No shades/curtains/blinds found"))
       ELSE IF call.action = "position" /\ call.position = None
            THEN Early(Failure("Position is required"))
       ELSE Puts(shade_devices,
                 [i \in 1..Len(shade_devices) |->
                     ShadeStateUpdate(shade_devices[i], call.action, call.position)],
                 TRUE)

\* control_group past the lookup of the groups
ControlGroupPlan(call) ==
    LET text == TargetText(call.target)
        group == FindByName(Groups, text)
        state_update == StateUpdate(call.on, call.brightness, call.color_temp)
        light_devices == LightsOf(Groups[group])
    IN IF group = 0 THEN Early(NotFound("groups", text, TRUE))
       ELSE IF state_update = EmptyUpdate
            THEN Early(Failure("No state changes specified"))
       ELSE IF light_devices = << >>
            THEN Early(NothingToControl("Group has no light devices"))
       ELSE Puts(light_devices, [i \in 1..Len(light_devices) |-> state_update],
                 TRUE)

\* control_device past the lookup of the devices
ControlDevicePlan(call) ==
    LET text == TargetText(call.target)
        device == FindByName(Devices, text)
        state_update == DeviceStateUpdate(Devices[device], call.on, call.brightness,
                                          call.color, call.color_temp)
    IN IF device = 0 THEN Early(NotFound("devices", text, TRUE))
       ELSE IF state_update = EmptyUpdate
            THEN Early(Failure("No state changes specified"))
       ELSE Puts(<<Devices[device]>>, <<state_update>>, FALSE)

\* control_shade past the lookup of the devices
ControlShadePlan(call) ==
    LET text == TargetText(call.target)
        device == FindByName(Devices, text)
        state_update == SingleShadeStateUpdate(Devices[device], call.action,
                                               call.position)
    IN IF device = 0 THEN Early(NotFound("devices", text, FALSE))
       ELSE IF call.action = "stop" THEN Early(NothingToControl("Stop command sent"))
       ELSE IF call.action = "position" /\ call.position = None
            THEN Early(Failure("Position is required"))
       ELSE IF state_update = EmptyUpdate THEN Early(Failure("Unknown action"))
       ELSE Puts(<<Devices[device]>>, <<state_update>>, FALSE)

\* a clear() of the cache that every return path reaches
ClearedInAnyCase(plan, oks) == TRUE

\* whether the call reaches the clear() of its cache: after the loop of a
\* room or group, after the PUT of a single device unless it failed
Cleared(plan, oks) == plan.early = None /\ (plan.loop \/ oks[1])

\* the call past a lookup that succeeded.  oks: whether the PUT to each
\* member succeeded.
Carry(k, plan, oks) ==
    LET changed == \E i \in 1..Len(oks) : oks[i]
    IN /\ changed => upstream < MaxControls
       /\ ctl_result' = IF plan.early # None THEN plan.early[1]
                        ELSE IF plan.loop THEN LoopResult(plan.members, oks)
                        ELSE SingleResult(oks)
       /\ ctl_puts' = MemberPuts(plan.members, plan.updates)
       /\ upstream' = IF changed THEN upstream + 1 ELSE upstream
       /\ snapshot_cache' = [snapshot_cache EXCEPT ![k] =
              IF Cleared(plan, oks)
              THEN SmartClear(AfterCachedRead(snapshot_cache[k]), dev_now)
              ELSE AfterCachedRead(snapshot_cache[k])]

\* a call of a control tool.  fetch_ok: whether the GET of a lookup that
\* misses the cache succeeds; a failed GET raises httpx.HTTPError, which the
\* tool turns into a failure.
ControlCall(call, plan) ==
    /\ ctl_count < MaxCalls
    /\ ctl_count' = ctl_count + 1
    /\ ctl_call' = call
    /\ ctl_before' = [caches |-> snapshot_cache, now |-> dev_now]
    /\ LET k == OwnCache(call.fn)
           hit == SmartGet(snapshot_cache[k], dev_now) # "None"
       IN \E fetch_ok \in (IF hit THEN {TRUE} ELSE BOOLEAN) :
            IF fetch_ok
            THEN \E oks \in [1..Len(plan.members) -> BOOLEAN] : Carry(k, plan, oks)
            ELSE /\ ctl_result' = Failure("HTTPError")
                 /\ ctl_puts' = << >>
                 /\ UNCHANGED <<upstream, snapshot_cache>>
    /\ dev_read' = NoRead
    /\ UNCHANGED dev_now
    /\ UNCHANGED notctl

\* the arguments the model calls the tools with
Ons == {None, Some(TRUE), Some(FALSE)}
Brightnesses == {None, Some(0), Some(50)}
ColorTemps == {None, Some(3000)}
Colors == {None, Some([hue |-> 240, saturation |-> 100])}
ShadeActions == {"open", "close", "position", "stop", "tilt"}
Positions == {None, Some(40)}
RoomNames == {"Den", "nook", "Hall", "Dxnx"}
GroupNames == {"Cosy", "drapes", "Dxnx"}
LightNames == {"spot 1", "Spxt"}
ShadeNames == {"Slats", "Cortina", "spot 1", "Spxt"}

LightCall(fn, target, on, brightness, color, color_temp) ==
    [NoCall EXCEPT !.fn = fn, !.target = target, !.on = on,
                   !.brightness = brightness, !.color = color,
                   !.color_temp = color_temp]
ShadeCall(fn, target, action, position) ==
    [NoCall EXCEPT !.fn = fn, !.target = target, !.action = action,
                   !.position = position]

ControlRoom(call) == ControlCall(call, ControlRoomPlan(call))
ControlRoomShades(call) == ControlCall(call, ControlRoomShadesPlan(call))
ControlGroup(call) == ControlCall(call, ControlGroupPlan(call))
ControlDevice(call) == ControlCall(call, ControlDevicePlan(call))
ControlShade(call) == ControlCall(call, ControlShadePlan(call))

InitControl ==
    /\ BreakerStart
    /\ ToolsStart(EmptyCache, EmptyCache)
    /\ TurnIdle("local")
    /\ ConvStart(DEFAULT_MAX_HISTORY)
    /\ CachesStart
    /\ DevStart
    /\ MoreStart

NextControl ==
    \/ \E target \in RoomNames, on \in Ons, brightness \in Brightnesses,
          color_temp \in ColorTemps :
            ControlRoom(LightCall("control_room", target, on, brightness, None,
                                  color_temp))
    \/ \E target \in RoomNames, action \in ShadeActions, position \in Positions :
            ControlRoomShades(ShadeCall("control_room_shades", target, action,
                                        position))
    \/ \E target \in GroupNames, on \in Ons, brightness \in Brightnesses,
          color_temp \in ColorTemps :
            ControlGroup(LightCall("control_group", target, on, brightness, None,
                                   color_temp))
    \/ \E target \in LightNames, on \in Ons, brightness \in Brightnesses,
          color \in Colors, color_temp \in ColorTemps :
            ControlDevice(LightCall("control_device", target, on, brightness,
                                    color, color_temp))
    \/ \E target \in ShadeNames, action \in ShadeActions, position \in Positions :
            ControlShade(ShadeCall("control_shade", target, action, position))

SpecControl == InitControl /\ [][NextControl]_vars

(***************************************************************************)
(* Claims about the control tools.                                         *)
(***************************************************************************)
\* the last step called fn, and its lookup did not fail
Called(fns) ==
    /\ ctl_call.fn \in fns
    /\ ~(ctl_result.error = "HTTPError" /\ ctl_puts = << >>)

\* the room or group the last call named
TargetEntity ==
    LET list == Entities(OwnCache(ctl_call.fn))
    IN list[FindByName(list, TargetText(ctl_call.target))]
TargetFound ==
    FindByName(Entities(OwnCache(ctl_call.fn)), TargetText(ctl_call.target)) # 0

\* the ids of the devices the last call sent a PUT to, and those of the
\* shades and of the other devices of the room or group it named
Recipients == {ctl_puts[i].device : i \in DOMAIN ctl_puts}
ShadeIds == {d.id : d \in {m \in Range(TargetEntity.devices) : IsShadeDevice(m)}}
LightIds == {d.id : d \in {m \in Range(TargetEntity.devices) : ~IsShadeDevice(m)}}

\* the caller gave a state to set
StateGiven ==
    \/ ctl_call.on # None
    \/ ctl_call.brightness # None
    \/ ctl_call.color # None
    \/ ctl_call.color_temp # None

\* the caller gave control_room_shades what its action needs
ShadeArgsGiven == ~(ctl_call.action = "position" /\ ctl_call.position = None)

\* C21: control_room sends a state update to exactly the devices of the room
\* that are not classified as shades, control_room_shades to exactly those
\* that are, one PUT each; the two sets are disjoint and cover the room
C21_ShadesAndLightsApart ==
    /\ Called({"control_room"}) /\ TargetFound /\ StateGiven =>
           /\ Recipients = LightIds
           /\ Len(ctl_puts) = Cardinality(LightIds)
    /\ Called({"control_room_shades"}) /\ TargetFound /\ ShadeArgsGiven =>
           /\ Recipients = ShadeIds
           /\ Len(ctl_puts) = Cardinality(ShadeIds)
    /\ Called({"control_room", "control_room_shades"}) /\ TargetFound =>
           /\ ShadeIds \cap LightIds = {}
           /\ ShadeIds \cup LightIds = {d.id : d \in Range(TargetEntity.devices)}

\* the blinds of a room with one tilting blind and two lights were closed:
\* the one PUT went to the blind
C21_Witness ==
    /\ Called({"control_room_shades"})
    /\ ctl_call.target = "Den"
    /\ ctl_call.action = "close"
    /\ Len(ctl_puts) = 1
    /\ ctl_puts[1].device = Slats.id
    /\ Cardinality(LightIds) = 2

\* C22: for a room or group that resolves (and arguments that name a change),
\* control_room, control_room_shades and control_group return one result per
\* member they targeted, and success exactly if the update of at least one
\* member succeeded
C22_SuccessIffMemberUpdated ==
    (\/ Called({"control_room", "control_group"}) /\ TargetFound /\ StateGiven
     \/ Called({"control_room_shades"}) /\ TargetFound /\ ShadeArgsGiven)
    => IF ctl_result.results = None
       THEN ~ctl_result.success
       ELSE /\ Len(ctl_result.results[1]) = Len(ctl_puts)
            /\ ctl_result.success =
                   \E i \in DOMAIN ctl_result.results[1] :
                       ctl_result.results[1][i].success

\* C23: control_device, control_room and control_group called for a target
\* that resolves, with none of on, brightness, color, color_temp, fail with
\* "No state changes specified" and send no PUT
C23_NoChangeIsAnError ==
    (/\ Called({"control_device", "control_room", "control_group"})
     /\ TargetFound
     /\ ~StateGiven)
    => /\ ~ctl_result.success
       /\ ctl_result.error = "No state changes specified"
       /\ ctl_puts = << >>

\* C24: every state update control_device, control_room and control_group
\* send has on = true when the brightness asked for is above 0, and else
\* the on the caller gave, or none if the caller gave none
C24_BrightnessTurnsOn ==
    Called({"control_device", "control_room", "control_group"}) =>
        \A i \in DOMAIN ctl_puts :
            ctl_puts[i].state.on =
                IF ctl_call.brightness # None /\ ctl_call.brightness[1] > 0
                THEN Some(TRUE)
                ELSE ctl_call.on

\* a call with on = false and a brightness of 50 sent on = true
C24_Witness ==
    /\ Called({"control_device", "control_room", "control_group"})
    /\ ctl_call.on = Some(FALSE)
    /\ ctl_call.brightness = Some(50)
    /\ ctl_puts # << >>
    /\ ctl_puts[1].state.on = Some(TRUE)
    /\ ctl_puts[1].state.brightness = Some(50)

\* C39: control_shade sends a state update to a shade only: called with the
\* name of a device that is not classified as a shade, it sends no PUT and
\* fails
C39_ShadeToolControlsShadesOnly ==
    (/\ Called({"control_shade"})
     /\ TargetFound
     /\ ~IsShadeDevice(TargetEntity))
    => /\ ctl_puts = << >>
       /\ ~ctl_result.success

\* the last step called a control tool whose lookup succeeded and whose
\* target resolves to nothing
NotFoundCall ==
    /\ Called({"control_device", "control_shade", "control_room",
               "control_room_shades", "control_group"})
    /\ ~TargetFound

\* what a call for a target that is not found returns and sends
NotFoundAnswer ==
    /\ ~ctl_result.success
    /\ ctl_result.error = "not found"
    /\ Len(ctl_result.suggestions) <= 3
    /\ ctl_puts = << >>

\* C25 as stated: a call for a target that is not found fails with "not
\* found" and at most 3 suggestions, sends no PUT, and leaves the caches of
\* the tool modules as they were
C25_NotFoundLeavesCache ==
    NotFoundCall => NotFoundAnswer /\ snapshot_cache = ctl_before.caches

\* C25, amended: a call for a target that is not found fails with "not found"
\* and at most 3 suggestions, sends no PUT, and clears no cache: no
\* modification time changes, and a cache changes only by the lookup of this
\* call storing the list it fetched because the cache had nothing to give
C25_NotFoundClearsNothing ==
    NotFoundCall =>
        /\ NotFoundAnswer
        /\ \A k \in Snapshots :
            /\ snapshot_cache[k].last_modification
                   = ctl_before.caches[k].last_modification
            /\ \/ snapshot_cache[k] = ctl_before.caches[k]
               \/ /\ k = OwnCache(ctl_call.fn)
                  /\ SmartGet(ctl_before.caches[k], ctl_before.now) = "None"
                  /\ snapshot_cache[k]
                         = SmartSet(ctl_before.caches[k], Fetched, ctl_before.now)

\* a second call named a device that is not found, after a first call had
\* filled the cache; three of the four lights were suggested
C25_Witness ==
    /\ ctl_count = 2
    /\ ctl_call.fn = "control_device"
    /\ ctl_call.target = "Spxt"
    /\ ctl_result.error = "not found"
    /\ Len(ctl_result.suggestions) = 3
    /\ snapshot_cache["devices"].data # "None"
    /\ snapshot_cache["rooms"].data # "None"

(***************************************************************************)
(* The context of a turn: get_smart_home_context_json and its three        *)
(* fetches (belle/context.py).                                             *)
(***************************************************************************)
\* response.json() of GET /devices, /rooms, /groups
UpstreamList(k) == "[" \o k \o "]"

\* a fetch coroutine that lets the failure of its request escape
FetchReturnsOrRaises(k, ok) == IF ok THEN UpstreamList(k) ELSE "raised"

\* _fetch_devices, _fetch_rooms, _fetch_groups: the list upstream answered,
\* or [] when the request failed in any way
FetchReturns(k, ok) == IF ok THEN UpstreamList(k) ELSE "[]"

\* the dict get_smart_home_context_json builds: the lights and the shades
\* are both taken from the devices
ContextJson(devices, rooms, groups) ==
    "{rooms: " \o rooms \o ", devices: " \o devices \o ", groups: " \o groups
    \o ", shades: " \o devices \o "}"

\* get_smart_home_context_json is called: it returns the cached context, or
\* hands the three fetch coroutines to asyncio.gather, which starts them all
ContextRequested ==
    /\ ctx_pc \in {"idle", "returned"}
    /\ IF CacheGet(context_json_cache, now_ms, ContextTtl * 1000) # "None"
       THEN /\ ctx_pc' = "returned"
            /\ ctx_context' = CacheGet(context_json_cache, now_ms, ContextTtl * 1000)
            /\ UNCHANGED <<ctx_fetch, ctx_got>>
       ELSE /\ ctx_pc' = "gathering"
            /\ ctx_fetch' = [k \in Snapshots |-> "in_flight"]
            /\ ctx_got' = [k \in Snapshots |-> "None"]
            /\ ctx_context' = "None"
    /\ UNCHANGED toolvars
    /\ UNCHANGED notctx

\* the request of one fetch coroutine comes back, well or not
FetchDone(k, ok) ==
    /\ ctx_fetch[k] = "in_flight"
    /\ ctx_fetch' = [ctx_fetch EXCEPT ![k] = IF ok THEN "ok" ELSE "failed"]
    /\ ctx_got' = [ctx_got EXCEPT ![k] = FetchReturns(k, ok)]
    /\ UNCHANGED <<ctx_pc, ctx_context>>
    /\ UNCHANGED toolvars
    /\ UNCHANGED notctx

\* asyncio.gather returns once the three coroutines have returned, and the
\* context is built, stored and returned; it raises as soon as one of them
\* has raised, and so does get_smart_home_context_json
GatherReturns ==
    /\ ctx_pc = "gathering"
    /\ IF \E k \in Snapshots : ctx_got[k] = "raised"
       THEN /\ ctx_pc' = "raised"
            /\ UNCHANGED <<ctx_context, context_json_cache>>
       ELSE /\ \A k \in Snapshots : ctx_fetch[k] \in {"ok", "failed"}
            /\ ctx_pc' = "returned"
            /\ ctx_context' = ContextJson(ctx_got["devices"], ctx_got["rooms"],
                                          ctx_got["groups"])
            /\ context_json_cache' = CacheSet(ctx_context', now_ms)
    /\ UNCHANGED <<ctx_fetch, ctx_got>>
    /\ UNCHANGED <<now_ms, recent, context_cache, tc_pc, tool_calls, tool_results,
                   returned, invoked, outcomes, checks, recorded, executed_at>>
    /\ UNCHANGED notctx

\* clear_context_cache, as the tool loop of a turn calls it after a batch
ClearContextCache ==
    /\ context_cache' = CacheClear(context_cache)
    /\ context_json_cache' = CacheClear(context_json_cache)
    /\ UNCHANGED <<now_ms, recent, tc_pc, tool_calls, tool_results, returned, invoked,
                   outcomes, checks, recorded, executed_at>>
    /\ UNCHANGED ctxvars
    /\ UNCHANGED notctx

InitContext ==
    /\ BreakerStart
    /\ ToolsStart(EmptyCache, EmptyCache)
    /\ TurnIdle("local")
    /\ RestStart

NextContext ==
    \/ ContextRequested
    \/ \E k \in Snapshots, ok \in BOOLEAN : FetchDone(k, ok)
    \/ GatherReturns
    \/ ClearContextCache
    \/ TickMs

SpecContext == InitContext /\ [][NextContext]_vars

(***************************************************************************)
(* Claims about the context of a turn.                                     *)
(***************************************************************************)
\* C29: building the context does not raise when a fetch fails: the three
\* fetches are started in one step and all are back before the context is
\* built; in the context a resource whose fetch failed is the empty list and
\* every other resource is the list its own fetch got
C29_FailedFetchIsEmptyList ==
    /\ ctx_pc # "raised"
    /\ ctx_pc = "gathering" => \A k \in Snapshots : ctx_fetch[k] # "idle"
    /\ ctx_pc = "returned" /\ ctx_fetch["devices"] # "idle" =>
           /\ \A k \in Snapshots : ctx_fetch[k] \in {"ok", "failed"}
           /\ ctx_context =
                  ContextJson(IF ctx_fetch["devices"] = "ok" THEN "[devices]" ELSE "[]",
                              IF ctx_fetch["rooms"] = "ok" THEN "[rooms]" ELSE "[]",
                              IF ctx_fetch["groups"] = "ok" THEN "[groups]" ELSE "[]")

\* a context was returned after the fetch of the rooms had failed and the
\* two others had not
C29_Witness ==
    /\ ctx_pc = "returned"
    /\ ctx_fetch = [k \in Snapshots |-> IF k = "rooms" THEN "failed" ELSE "ok"]
    /\ ctx_context = "{rooms: [], devices: [devices], groups: [groups], shades: [devices]}"

\* C38: a context that was built while a fetch had failed is not what the
\* cache serves: a request within the TTL fetches again
C38_DegradedContextNotCached ==
    (ctx_pc = "returned" /\ \E k \in Snapshots : ctx_fetch[k] = "failed") =>
        CacheGet(context_json_cache, now_ms, ContextTtl * 1000) # ctx_context

(***************************************************************************)
(* The follow-up request of the Anthropic provider (belle/llm/anthropic.py) *)
(* over the history the conversation manager hands out.                    *)
(***************************************************************************)
\* a content block of a message
Block(type, ref) == [type |-> type, ref |-> ref]

\* tool_result_content: one tool_result block per executed tool call
ToolResultContent(n) == [i \in 1..n |-> Block("tool_result", i)]

\* messages as chat_async has them before it merges: the history, the user
\* message, the assistant message with the tool_use blocks, the tool
\* results, the follow-up instruction
MessagesBeforeMerge(history, n) ==
    history
    \o <<Message("user", <<Block("text", 0)>>),
         Message("assistant", <<Block("tool_use", 0)>>),
         Message("user", ToolResultContent(n)),
         Message("user", <<Block("text", 0)>>)>>

\* the follow-up request sent with the messages as they are before the merge
FollowupMessagesUnmerged(history, n) == MessagesBeforeMerge(history, n)

\* messages of the follow-up request: the last message is popped and its
\* text is appended to the content of the one before it
FollowupMessages(history, n) ==
    LET messages == MessagesBeforeMerge(history, n)
        merged_content == messages[Len(messages) - 1].content
                          \o <<Block("text", 0)>>
        popped == SubSeq(messages, 1, Len(messages) - 1)
    IN [popped EXCEPT ![Len(popped)].content = merged_content]

\* chat_async of the Anthropic provider, called with the history that
\* get_history returned in the step before, has executed n tool calls and
\* sends its follow-up request
AnthropicFollowup(n) ==
    /\ last_history # NoHistory
    /\ anth_messages' = FollowupMessages(last_history.history, n)
    /\ UNCHANGED notanth

InitFollowup ==
    \E mh \in (0..MaxHist) \cup {DEFAULT_MAX_HISTORY} :
        /\ BreakerStart
        /\ ToolsStart(EmptyCache, EmptyCache)
        /\ TurnIdle("anthropic")
        /\ ConvStart(mh)
        /\ CachesStart
        /\ DevStart
        /\ MoreStart

\* the calls of main.py on the manager for one session, and the follow-up
NextFollowup ==
    \/ GetHistory("s1")
    \/ AddExchange("s1")
    \/ ClearSession("s1")
    \/ \E n \in 0..MaxBatch : AnthropicFollowup(n)

SpecFollowup == InitFollowup /\ [][NextFollowup]_vars

(***************************************************************************)
(* Claims about the follow-up request of the Anthropic provider.           *)
(***************************************************************************)
\* C30: in a follow-up request of the Anthropic provider no two adjacent
\* messages have the same role, whatever the history and the number of
\* executed tool calls: the last message is one user message that holds the
\* tool results followed by the follow-up instruction
C30_RolesAlternate ==
    anth_messages # << >> =>
        /\ \A i \in 1..(Len(anth_messages) - 1) :
               anth_messages[i].role # anth_messages[i + 1].role
        /\ LET last == anth_messages[Len(anth_messages)]
           IN /\ last.role = "user"
              /\ last.content[Len(last.content)].type = "text"
              /\ \A i \in 1..(Len(last.content) - 1) :
                     last.content[i].type = "tool_result"

\* a follow-up request after two tool calls, over a history that was cut to
\* three messages and so starts with an answer of the assistant
C30_Witness ==
    /\ Len(anth_messages) = 6
    /\ anth_messages[1].role = "assistant"
    /\ Len(anth_messages[6].content) = 3

(***************************************************************************)
(* Concurrent turns: several execute_tool_calls coroutines over the one    *)
(* _tool_deduplicator (belle/llm/common.py, belle/http.py).                *)
(***************************************************************************)
\* the batches the concurrent turns are handed: the same call, the same
\* call with its arguments in another order, and batches that repeat it
\* after or before another call
CoBatches == {<<KitchenOn>>, <<KitchenOnSwapped>>, <<KitchenOff, KitchenOn>>}

\* what the tool function of a concurrent turn does: its result has no part
\* in the deduplication
CoOutcomes == {"success"}

\* execute_tool_calls(tool_calls) is called in task t
CoStartBatch(t, calls) ==
    /\ co_pc[t] = "idle"
    /\ co_pc' = [co_pc EXCEPT ![t] = "loop"]
    /\ co_calls' = [co_calls EXCEPT ![t] = calls]
    /\ co_results' = [co_results EXCEPT ![t] = << >>]
    /\ UNCHANGED <<co_invoked, co_log>>
    /\ UNCHANGED toolvars
    /\ UNCHANGED notco

\* one iteration of the loop in task t, up to the continue or the await of
\* execute_tool: make_key and is_duplicate have no await, so the check and
\* the recording are one step
CoLoopIteration(t) ==
    /\ co_pc[t] = "loop"
    /\ Len(co_results[t]) < Len(co_calls[t])
    /\ LET i == Len(co_results[t]) + 1
           tool_call == co_calls[t][i]
           dedup_key == MakeKey(tool_call.name, tool_call.arguments)
           d == IsDuplicate(recent, dedup_key, now_ms)
       IN /\ recent' = d.recent
          /\ co_log' = Append(co_log, [task |-> t, pos |-> i, key |-> dedup_key,
                                       at |-> now_ms, dup |-> d.dup])
          /\ IF d.dup
             THEN /\ co_results' = [co_results EXCEPT ![t] =
                         Append(@, ResultEntry(tool_call, SkippedResult))]
                  /\ UNCHANGED <<co_pc, co_invoked>>
             ELSE IF tool_call.name \notin ALL_TOOL_FUNCTIONS
             THEN /\ co_results' = [co_results EXCEPT ![t] =
                         Append(@, ResultEntry(tool_call,
                                    ExecuteTool(tool_call.name, "none").result))]
                  /\ UNCHANGED <<co_pc, co_invoked>>
             ELSE /\ co_pc' = [co_pc EXCEPT ![t] = "awaiting"]
                  /\ co_invoked' = [co_invoked EXCEPT ![t] = Append(@, i)]
                  /\ UNCHANGED co_results
    /\ UNCHANGED co_calls
    /\ UNCHANGED <<now_ms, context_cache, context_json_cache, tc_pc, tool_calls,
                   tool_results, returned, invoked, outcomes, checks, recorded,
                   executed_at>>
    /\ UNCHANGED notco

\* the tool function of task t ends and its result is appended
CoToolCompletes(t, outcome) ==
    /\ co_pc[t] = "awaiting"
    /\ LET i == Len(co_results[t]) + 1
           tool_call == co_calls[t][i]
       IN co_results' = [co_results EXCEPT ![t] =
              Append(@, ResultEntry(tool_call,
                                    ExecuteTool(tool_call.name, outcome).result))]
    /\ co_pc' = [co_pc EXCEPT ![t] = "loop"]
    /\ UNCHANGED <<co_calls, co_invoked, co_log>>
    /\ UNCHANGED toolvars
    /\ UNCHANGED notco

\* the loop of task t is over: clear_context_cache() and return
CoLoopEnd(t) ==
    /\ co_pc[t] = "loop"
    /\ Len(co_results[t]) = Len(co_calls[t])
    /\ co_pc' = [co_pc EXCEPT ![t] = "done"]
    /\ context_cache' = CacheClear(context_cache)
    /\ context_json_cache' = CacheClear(context_json_cache)
    /\ UNCHANGED <<co_calls, co_results, co_invoked, co_log>>
    /\ UNCHANGED <<now_ms, recent, tc_pc, tool_calls, tool_results, returned,
                   invoked, outcomes, checks, recorded, executed_at>>
    /\ UNCHANGED notco

InitCoTools ==
    /\ BreakerStart
    /\ ToolsStart(EmptyCache, EmptyCache)
    /\ TurnIdle("local")
    /\ RestStart

NextCoTools ==
    \/ \E t \in Tasks, calls \in CoBatches : CoStartBatch(t, calls)
    \/ \E t \in Tasks : CoLoopIteration(t)
    \/ \E t \in Tasks, outcome \in CoOutcomes : CoToolCompletes(t, outcome)
    \/ \E t \in Tasks : CoLoopEnd(t)
    \/ TickMs

SpecCoTools == InitCoTools /\ [][NextCoTools]_vars

(***************************************************************************)
(* Claims about concurrent turns.                                          *)
(***************************************************************************)
\* the check j of the log comes less than windowMs after a check of the same
\* key, by any turn, that was told 'not duplicate'
Shadowed(j) ==
    \E i \in 1..(j - 1) :
        /\ co_log[i].key = co_log[j].key
        /\ ~co_log[i].dup
        /\ co_log[j].at - co_log[i].at < WindowMs

\* the checks of the log that task t made
ChecksOf(t) == {j \in 1..Len(co_log) : co_log[j].task = t}

\* C32: under every interleaving of the turns, a check is told 'duplicate'
\* exactly when a check of the same key was told 'not duplicate' less than
\* windowMs before it, so of the checks of one key within windowMs exactly
\* one is told 'not duplicate'; the turn that made it invokes the tool, and
\* every other is skipped without invoking anything
C32_OneOfConcurrentRuns ==
    /\ \A j \in 1..Len(co_log) : co_log[j].dup <=> Shadowed(j)
    /\ \A i, j \in 1..Len(co_log) :
          /\ i < j
          /\ co_log[i].key = co_log[j].key
          /\ co_log[j].at - co_log[i].at < WindowMs
          => co_log[i].dup \/ co_log[j].dup
    /\ \A t \in Tasks :
          /\ Range(co_invoked[t]) = {co_log[j].pos : j \in {k \in ChecksOf(t) : ~co_log[k].dup}}
          /\ \A j \in ChecksOf(t) :
                co_log[j].dup =>
                    /\ co_log[j].pos <= Len(co_results[t])
                    /\ co_results[t][co_log[j].pos].result = SkippedResult

\* three turns checked the same key while the tool function of the first
\* was still running: the first was told 'not duplicate' and invoked the
\* tool, the two others were skipped
C32_Witness ==
    /\ Len(co_log) = 3
    /\ {co_log[j].task : j \in 1..3} = Tasks
    /\ \A j \in 1..3 : co_log[j].key = co_log[1].key
    /\ ~co_log[1].dup /\ co_log[2].dup /\ co_log[3].dup
    /\ co_pc[co_log[1].task] = "awaiting"
    /\ \A t \in Tasks \ {co_log[1].task} : co_invoked[t] = << >>

(***************************************************************************)
(* Shades and other devices, as the context and as the tools tell them     *)
(* apart (belle/context.py, belle/tools/rooms.py, belle/tools/groups.py).  *)
(***************************************************************************)
\* "Unknown", the name get_smart_home_context_json gives a device without one
Unknown == <<"U", "n", "k", "n", "o", "w", "n">>

\* the test of get_smart_home_context_json that puts a device in shade_list:
\* by deviceType, else by a keyword in the name
ContextIsShade(d) ==
    LET device_type == Get(d, "deviceType", "")
        name == Get(d, "name", Unknown)
    IN \/ device_type \in SHADE_DEVICE_TYPES
       \/ \E kw \in ShadeKeywords : IsSubstring(kw, Lower(name))

\* the values of deviceType and of type, and the names, of the devices the
\* model classifies
DeviceTypeValues == {"", "Curtain", "Curtain3", "Blind Tilt", "Roller Shade", "Bulb"}
TypeValues == {"Curtain", "Roller Shade", "Light"}
NameValues ==
    {<<"L", "a", "m", "p">>,
     <<"D", "e", "n", " ", "B", "l", "i", "n", "d">>,
     <<"C", "O", "R", "T", "I", "N", "A">>,
     <<"s", "u", "n", "s", "h", "a", "d", "e">>}

\* the device dicts of the model: each of the three keys is there or not
ClassifiedDevices ==
    {[k \in keys |-> CASE k = "deviceType" -> dt
                       [] k = "type" -> ty
                       [] k = "name" -> nm] :
        keys \in SUBSET {"deviceType", "type", "name"},
        dt \in DeviceTypeValues, ty \in TypeValues, nm \in NameValues}

\* the loop of get_smart_home_context_json reaches the device
ContextSorts ==
    /\ cls_context = "none"
    /\ cls_context' = IF ContextIsShade(cls_device) THEN "shades" ELSE "devices"
    /\ UNCHANGED <<cls_device, cls_tools>>
    /\ UNCHANGED notcls

\* a room or group tool asks _is_shade_device about the device
ToolsSort ==
    /\ cls_tools = "none"
    /\ cls_tools' = IF IsShadeDevice(cls_device) THEN "shade" ELSE "other"
    /\ UNCHANGED <<cls_device, cls_context>>
    /\ UNCHANGED notcls

InitClassify ==
    /\ BreakerStart
    /\ ToolsStart(EmptyCache, EmptyCache)
    /\ TurnIdle("local")
    /\ ConvStart(DEFAULT_MAX_HISTORY)
    /\ CachesStart
    /\ DevStart
    /\ ResolverIdle(<< >>)
    /\ ControlIdle
    /\ ContextIdle
    /\ anth_messages = << >>
    /\ TasksIdle
    /\ ContextsIdle
    /\ ShadeAsked([name |-> << >>], [action |-> "none", position |-> << >>])
    /\ \E device \in ClassifiedDevices : Unclassified(device)

NextClassify == ContextSorts \/ ToolsSort

SpecClassify == InitClassify /\ [][NextClassify]_vars

\* C33: a device is in the 'shades' list of the context exactly when
\* _is_shade_device of the room and group tools calls it a shade, and in
\* 'devices' otherwise, whatever its deviceType, type and name
C33_SameClassification ==
    cls_context # "none" /\ cls_tools # "none" =>
        (cls_context = "shades" <=> cls_tools = "shade")

(***************************************************************************)
(* Concurrent turns and the context cache: get_smart_home_context_json     *)
(* and the batch of a turn in several tasks (belle/context.py,             *)
(* belle/llm/common.py).  The state of the devices is what GET /devices    *)
(* returns; it is named by the number of control calls upstream has        *)
(* applied.                                                                *)
(***************************************************************************)
\* what is unchanged of the tool loop and of the tool modules when a
\* concurrent turn takes a step on the context
CcFrame ==
    /\ UNCHANGED <<now_ms, recent, context_cache, tc_pc, tool_calls, tool_results,
                   returned, invoked, outcomes, checks, recorded, executed_at>>
    /\ UNCHANGED <<dev_now, snapshot_cache, dev_read>>
    /\ UNCHANGED notcc

\* build_system_prompt_with_context in task t calls
\* get_smart_home_context_json: the cached context, or the start of the
\* fetches
CcContextRequested(t) ==
    /\ cc_pc[t] = "idle"
    /\ cc_need' = [cc_need EXCEPT ![t] = cc_floor]
    /\ LET cached == CacheGet(context_json_cache, now_ms, ContextTtl * 1000)
       IN IF cached # "None"
          THEN /\ cc_pc' = [cc_pc EXCEPT ![t] = "prompted"]
               /\ cc_context' = [cc_context EXCEPT ![t] = cached]
               /\ UNCHANGED cc_got
          ELSE /\ cc_pc' = [cc_pc EXCEPT ![t] = "gathering"]
               /\ cc_got' = [cc_got EXCEPT ![t] = "None"]
               /\ cc_context' = [cc_context EXCEPT ![t] = "None"]
    /\ UNCHANGED <<cc_floor, upstream, context_json_cache>>
    /\ CcFrame

\* upstream answers GET /devices of task t with the state it has now
CcFetchDone(t) ==
    /\ cc_pc[t] = "gathering"
    /\ cc_got[t] = "None"
    /\ cc_got' = [cc_got EXCEPT ![t] = Fetched]
    /\ UNCHANGED <<cc_pc, cc_context, cc_need, cc_floor, upstream, context_json_cache>>
    /\ CcFrame

\* asyncio.gather of task t returns: the context is built, stored in the
\* cache and returned
CcGatherReturns(t) ==
    /\ cc_pc[t] = "gathering"
    /\ cc_got[t] # "None"
    /\ cc_pc' = [cc_pc EXCEPT ![t] = "prompted"]
    /\ cc_context' = [cc_context EXCEPT ![t] = cc_got[t]]
    /\ context_json_cache' = CacheSet(cc_got[t], now_ms)
    /\ UNCHANGED <<cc_got, cc_need, cc_floor, upstream>>
    /\ CcFrame

\* a control call of the batch of task t succeeds: upstream applied its PUT
CcControlSucceeds(t) ==
    /\ cc_pc[t] = "prompted"
    /\ upstream < MaxControls
    /\ upstream' = upstream + 1
    /\ cc_pc' = [cc_pc EXCEPT ![t] = "in_batch"]
    /\ UNCHANGED <<cc_got, cc_context, cc_need, cc_floor, context_json_cache>>
    /\ CcFrame

\* execute_tool_calls of task t is through its loop: clear_context_cache()
CcBatchReturns(t) ==
    /\ cc_pc[t] = "in_batch"
    /\ cc_pc' = [cc_pc EXCEPT ![t] = "done"]
    /\ context_cache' = CacheClear(context_cache)
    /\ context_json_cache' = CacheClear(context_json_cache)
    /\ cc_floor' = upstream
    /\ UNCHANGED <<cc_got, cc_context, cc_need, upstream>>
    /\ UNCHANGED <<now_ms, recent, tc_pc, tool_calls, tool_results,
                   returned, invoked, outcomes, checks, recorded, executed_at>>
    /\ UNCHANGED <<dev_now, snapshot_cache, dev_read>>
    /\ UNCHANGED notcc

\* the turn of task t ends, with or without a batch, and the task serves
\* the next turn
CcTurnEnds(t) ==
    /\ cc_pc[t] \in {"prompted", "done"}
    /\ cc_pc' = [cc_pc EXCEPT ![t] = "idle"]
    /\ cc_got' = [cc_got EXCEPT ![t] = "None"]
    /\ cc_context' = [cc_context EXCEPT ![t] = "None"]
    /\ cc_need' = [cc_need EXCEPT ![t] = 0]
    /\ UNCHANGED <<cc_floor, upstream, context_json_cache>>
    /\ CcFrame

InitCoContext ==
    /\ BreakerStart
    /\ ToolsStart(EmptyCache, EmptyCache)
    /\ TurnIdle("local")
    /\ RestStart

NextCoContext ==
    \/ \E t \in Tasks : CcContextRequested(t)
    \/ \E t \in Tasks : CcFetchDone(t)
    \/ \E t \in Tasks : CcGatherReturns(t)
    \/ \E t \in Tasks : CcControlSucceeds(t)
    \/ \E t \in Tasks : CcBatchReturns(t)
    \/ \E t \in Tasks : CcTurnEnds(t)
    \/ TickMs

SpecCoContext == InitCoContext /\ [][NextCoContext]_vars

\* C34: a turn that asked for its context after a batch with a successful
\* control call had completed builds its prompt from the state of the
\* devices as it was after that control call, or later
C34_NoStaleContextAfterBatch ==
    \A t \in Tasks :
        cc_pc[t] = "prompted" =>
            cc_context[t] \in {ToString(n) : n \in cc_need[t]..upstream}


(***************************************************************************)
(* The state update a shade is sent: by control_shade                      *)
(* (belle/tools/devices.py) and by control_room_shades                     *)
(* (belle/tools/rooms.py).                                                 *)
(***************************************************************************)
\* "maximum" of position in the definitions of the two tools
MaxPosition == 100

\* the requests that make the tools send a state update
ShadeRequests ==
    {[action |-> a, position |-> None] : a \in {"open", "close"}}
    \cup {[action |-> "position", position |-> Some(p)] : p \in 0..MaxPosition}

\* the shades upstream knows
ShadeDevices == {Slats, Cortina}

\* control_shade, from the device found to the state update it sends
ShadeAlone ==
    /\ sh_single = None
    /\ sh_single' = Some(SingleShadeStateUpdate(sh_device, sh_request.action,
                                                sh_request.position))
    /\ UNCHANGED <<sh_device, sh_request, sh_room>>
    /\ UNCHANGED notsh

\* control_room_shades, for one shade of the room
ShadeInRoom ==
    /\ sh_room = None
    /\ sh_room' = Some(ShadeStateUpdate(sh_device, sh_request.action,
                                        sh_request.position))
    /\ UNCHANGED <<sh_device, sh_request, sh_single>>
    /\ UNCHANGED notsh

InitShades ==
    /\ BreakerStart
    /\ ToolsStart(EmptyCache, EmptyCache)
    /\ TurnIdle("local")
    /\ ConvStart(DEFAULT_MAX_HISTORY)
    /\ CachesStart
    /\ DevStart
    /\ ResolverIdle(<< >>)
    /\ ControlIdle
    /\ ContextIdle
    /\ anth_messages = << >>
    /\ TasksIdle
    /\ Unclassified([name |-> << >>])
    /\ ContextsIdle
    /\ \E device \in ShadeDevices, request \in ShadeRequests :
           ShadeAsked(device, request)

NextShades == ShadeAlone \/ ShadeInRoom

SpecShades == InitShades /\ [][NextShades]_vars

(***************************************************************************)
(* Claims about the state update of a shade.                               *)
(***************************************************************************)
\* C40: for the same Blind Tilt and the same request (open, close, or a
\* position of 0..100), control_shade and control_room_shades send the same
\* on and the same brightness
C40_SameDeltaForBlindTilt ==
    (IsBlindTilt(sh_device) /\ sh_single # None /\ sh_room # None) =>
        /\ sh_single[1].on = sh_room[1].on
        /\ sh_single[1].brightness = sh_room[1].brightness

=============================================================================
